---- MODULE Spec2Model ----
(***************************************************************************)
(* State-machine model of the PoSEVoting governance contract               *)
(* (src/backend/blockchain/contracts/PoSEVoting.sol).                      *)
(*                                                                         *)
(* Every external function of the contract is one action.  A transaction   *)
(* either runs to completion or reverts; a reverted transaction leaves the *)
(* contract storage untouched, so a failed call is a stuttering step.  The *)
(* revert reason of a call is given by the ...Err operator of its handler, *)
(* which evaluates the handler's require statements in source order and    *)
(* yields OK when all of them pass.                                        *)
(* block.timestamp is the variable now, advanced by Tick.  The owner is    *)
(* the deployer (Ownable(msg.sender)).                                     *)
(*                                                                         *)
(* Spec is the contract with every function atomic and the token reduced   *)
(* to the result of its transfer.  SpecIds holds two proposals side by     *)
(* side, SpecSnapshot hands propose wider snapshots, SpecCall runs stake   *)
(* and unstake step by step around the token's callback, and SpecAct puts  *)
(* the DecisionEngine, the operator and the Actuator around the contract.  *)
(* SpecLive observes the stake and quorum at the passing of each deadline, *)
(* SpecFair schedules the clock and finalize fairly, SpecFrame changes the *)
(* voting period between two proposals, and SpecStaking is stake and       *)
(* unstake alone with the token's ledger.                                  *)
(*                                                                         *)
(* Around the contract stand the components it gates and serves:           *)
(* SpecEngine is the DecisionEngine's cycle in its stages, SpecActuator    *)
(* the Actuator with its target's lock, SpecGate the OmegaGate contract    *)
(* (src/contracts/contracts/OmegaGate.sol) and SpecBackend the HTTP        *)
(* backend (src/backend/server.js) with its middleware and routes.         *)
(***************************************************************************)
EXTENDS Integers, Sequences, FiniteSets, TLC

\* ------------------------------------------------------------- bounds
\* block.timestamp stops advancing at MaxTime; stake is refused (the step is
\* not taken) when it would raise one account's stake above MaxStake, which is
\* also the number of tokens every account holds at the start.
MaxTime == 2
MaxStake == 2
\* The Actuator is handed at most MaxDecisions Decisions, numbered from 1.
MaxDecisions == 4
\* The backend's route handlers run for at most MaxRequests requests.
MaxRequests == 2

\* ------------------------------------------------------------- universe
Accounts == {"a1", "a2"}
NoAddr == "0x0"
Deployer == "a1"

\* address(this), and the holders of the governance token
This == "PoSEVoting"
Holders == Accounts \cup {This}

\* Proposal ids the model addresses: 0 is never assigned, 1 is the first id;
\* propose is not taken once every id of this set above 0 is assigned.
ProposalIds == {0, 1}
Amounts == {0, 1, 2}
MinStakes == {2}
QuorumInputs == {5000, 6700, 10001}
VotingPeriods == {0, 1}
ActionTypes == {"ROLLBACK"}
OmegaInputs == {950, 1001}
PsiInputs == {970}
BetaInputs == {1200}
ActionData == {"0x01"}

BasisPoints == 10000
MaxOmegaScore == 1000

\* enum ProposalStatus
Pending == "Pending"
Approved == "Approved"
Rejected == "Rejected"
Executed == "Executed"
Expired == "Expired"
ProposalStatus == {Pending, Approved, Rejected, Executed, Expired}

\* revert reasons
OK == "ok"
ErrAmountZero == "Amount must be > 0"
ErrTransferFailed == "Transfer failed"
ErrInsufficientStake == "Insufficient stake"
ErrInvalidOmega == "Invalid omega score"
ErrNotFound == "Proposal not found"
ErrNotPending == "Not pending"
ErrVotingEnded == "Voting ended"
ErrVotingNotEnded == "Voting not ended"
ErrAlreadyVoted == "Already voted"
ErrNoVotingPower == "No voting power"
ErrNotApproved == "Not approved"
ErrInvalidQuorum == "Invalid quorum"
ErrUnauthorized == "OwnableUnauthorizedAccount"
ErrReentrant == "ReentrancyGuardReentrantCall"

\* ------------------------------------------------------------- state
VARIABLES
    now,                \* block.timestamp
    owner,              \* Ownable owner
    stakes,             \* mapping(address => uint256)
    totalStaked,
    minStakeToPropose,
    quorumPercentage,
    votingPeriod,
    proposalCount,
    proposals,          \* mapping(uint256 => Proposal)
    votes,              \* mapping(uint256 => mapping(address => Vote))
    hasVoted,           \* mapping(uint256 => mapping(address => bool))
    entered,            \* ReentrancyGuard: a nonReentrant function is running
    call,               \* the stake or unstake call whose token transfer is running
    balances,           \* governanceToken.balanceOf
    actuation,          \* per proposal: what the Actuator has done for it
    direct,             \* the action last dispatched without a proposal
    decisionMode,       \* DecisionEngine: the decision mode in force
    prediction,         \* DecisionEngine: the Orient stage's action and confidence
    target,             \* Actuator: the managed target, its lock and the Busy counter
    inflight,           \* Actuator: what became of each Decision handed to it
    gate,               \* OmegaGate: the last call of evaluate, its result and event
    backend,            \* the HTTP backend: its Decision collection and last exchange
    atDeadline          \* per proposal: the stake and quorum seen when its deadline passed

vars == <<now, owner, stakes, totalStaked, minStakeToPropose, quorumPercentage,
          votingPeriod, proposalCount, proposals, votes, hasVoted,
          entered, call, balances, actuation, direct, decisionMode, prediction,
          target, inflight, gate, backend, atDeadline>>

config == <<minStakeToPropose, quorumPercentage, votingPeriod>>
staking == <<stakes, totalStaked>>
ballots == <<proposals, votes, hasVoted>>
storage == <<owner, stakes, totalStaked, minStakeToPropose, quorumPercentage,
             votingPeriod, proposalCount, proposals, votes, hasVoted>>

\* The zero value of a storage slot that was never written.
ZeroProposal ==
    [id |-> 0, proposer |-> NoAddr, actionType |-> "SCALE_UP", actionData |-> "",
     votesFor |-> 0, votesAgainst |-> 0, createdAt |-> 0, deadline |-> 0,
     status |-> Pending, omegaScore |-> 0, psiIndex |-> 0, betaAntifragile |-> 0]

ZeroVote == [voter |-> NoAddr, weight |-> 0, support |-> FALSE, timestamp |-> 0]

\* What lies outside the contract, its token and the proposals' actuation:
\* the DecisionEngine's cycle, the Actuator's target, the OmegaGate contract
\* and the HTTP backend.
engine == <<decisionMode, prediction>>
actuator == <<target, inflight>>
world == <<engine, actuator, gate, backend, atDeadline>>

\* What lies outside the storage of the governance functions: the reentrancy
\* guard, the call in progress, the token's ledger, the Actuator, and the
\* components that do not touch the contract.
rest == <<entered, call, balances, actuation, direct, world>>

\* The contract, its token and the actuation of its proposals.
chain == <<now, storage, entered, call, balances, actuation, direct, atDeadline>>

\* The deadline of the proposal has not been seen to pass.
NoObservation == [recorded |-> FALSE, totalStaked |-> 0, quorumPercentage |-> 0]

\* The Actuator has not been handed the proposal's action.
NoActuation == [dispatched |-> FALSE, applied |-> 0, succeeded |-> 0,
                reinvoked |-> FALSE]

\* The deployment the Actuator manages: its replica count at the start and
\* the limits of the count, and the replicas one SCALE_UP adds.
InitialReplicas == 3
MinReplicas == 2
MaxReplicas == 10
ScaleUpStep == 2

\* The Decisions handed to the Actuator; NoDecision has not arrived yet.
DecisionIds == 1..MaxDecisions
NoDecision == [action |-> "NOOP", fate |-> "none"]

\* The backend has not been sent a request: no Authorization header, no
\* reply of the AI service, no response.
NoHeader == [present |-> FALSE, parts |-> <<>>]
NoReply == [ok |-> FALSE, omega_score |-> 0, recommendation |-> ""]
NoRecord == [userId |-> "", omegaScore |-> 0, recommendation |-> ""]
NoBody == [email |-> "", password |-> ""]
NoRequest ==
    [method |-> "", path |-> "", header |-> NoHeader, body |-> NoBody,
     ai |-> NoReply, db |-> TRUE]
NoResponse == [status |-> 0, error |-> "", decision |-> NoRecord, token |-> ""]

\* OmegaGate.evaluate has not been called.
NoEvaluation ==
    [called |-> FALSE, omega_score_scaled |-> 0, cvar_95_scaled |-> 0,
     returned |-> "PAUSE",
     emitted |-> [user |-> NoAddr, recommendation |-> "PAUSE", omega_score |-> 0]]

\* The Orient stage has predicted nothing yet: the cycle has nothing to act on.
NoPrediction == [action |-> "NOOP", confidence |-> 0]

\* No stake or unstake call is waiting for its token transfer to return.
NoCall == [fn |-> "none", sender |-> NoAddr, amount |-> 0, moved |-> FALSE]

\* The types of the contract's storage, as declared.
TypeOK ==
    /\ now \in Nat
    /\ owner \in Accounts
    /\ stakes \in [Accounts -> Nat]
    /\ totalStaked \in Nat
    /\ minStakeToPropose \in Nat
    /\ quorumPercentage \in Nat
    /\ votingPeriod \in Nat
    /\ proposalCount \in Nat
    /\ \A p \in ProposalIds :
          /\ proposals[p].id \in {0, p}
          /\ proposals[p].proposer \in Accounts \cup {NoAddr}
          /\ proposals[p].votesFor \in Nat
          /\ proposals[p].votesAgainst \in Nat
          /\ proposals[p].createdAt \in Nat
          /\ proposals[p].deadline \in Nat
          /\ proposals[p].status \in ProposalStatus
    /\ \A p \in ProposalIds, a \in Accounts :
          /\ votes[p][a].voter \in {a, NoAddr}
          /\ votes[p][a].weight \in Nat
          /\ votes[p][a].support \in BOOLEAN
          /\ votes[p][a].timestamp \in Nat
          /\ hasVoted[p][a] \in BOOLEAN
    /\ entered \in BOOLEAN
    /\ call.fn \in {"none", "stake", "unstake"}
    /\ call.sender \in Accounts \cup {NoAddr}
    /\ call.amount \in Nat
    /\ call.moved \in BOOLEAN
    /\ balances \in [Holders -> Nat]
    /\ \A p \in ProposalIds :
          /\ actuation[p].dispatched \in BOOLEAN
          /\ actuation[p].applied \in Nat
          /\ actuation[p].succeeded \in Nat
          /\ actuation[p].reinvoked \in BOOLEAN
    /\ direct \in {"NOOP", "SCALE_UP", "SCALE_DOWN", "RETUNE", "ROLLBACK",
                   "EMERGENCY_STOP"}
    /\ decisionMode \in {"Conservative", "Balanced", "Aggressive"}
    /\ prediction.confidence \in 0..100
    /\ target.replicas \in Nat
    /\ target.locked \in BOOLEAN
    /\ target.busy \in Nat
    /\ \A d \in DecisionIds :
          inflight[d].fate \in {"none", "waiting", "running", "done", "dropped"}
    /\ gate.called \in BOOLEAN
    /\ gate.omega_score_scaled \in Nat
    /\ gate.cvar_95_scaled \in Nat
    /\ backend.handled \in Nat
    /\ backend.aiCalls \in Nat
    /\ Len(backend.decisions) \in Nat
    /\ backend.response.status \in {0, 200, 201, 401, 500, 502}
    /\ \A p \in DOMAIN atDeadline :
           /\ atDeadline[p].recorded \in BOOLEAN
           /\ atDeadline[p].totalStaked \in Nat
           /\ atDeadline[p].quorumPercentage \in Nat

\* ------------------------------------------------------------- constructor
Init ==
    /\ now = 0
    /\ owner = Deployer
    /\ stakes = [a \in Accounts |-> 0]
    /\ totalStaked = 0
    /\ minStakeToPropose \in MinStakes
    /\ quorumPercentage \in {q \in QuorumInputs : q <= BasisPoints}
    /\ votingPeriod \in VotingPeriods
    /\ proposalCount = 0
    /\ proposals = [p \in ProposalIds |-> ZeroProposal]
    /\ votes = [p \in ProposalIds |-> [a \in Accounts |-> ZeroVote]]
    /\ hasVoted = [p \in ProposalIds |-> [a \in Accounts |-> FALSE]]
    /\ entered = FALSE
    /\ call = NoCall
    /\ balances = [h \in Holders |-> IF h = This THEN 0 ELSE MaxStake]
    /\ actuation = [p \in ProposalIds |-> NoActuation]
    /\ direct = "NOOP"
    /\ decisionMode = "Balanced"
    /\ prediction = NoPrediction
    /\ target = [replicas |-> InitialReplicas, locked |-> FALSE, busy |-> 0]
    /\ inflight = [d \in DecisionIds |-> NoDecision]
    /\ gate = NoEvaluation
    /\ backend = [handled |-> 0, aiCalls |-> 0, decisions |-> <<>>,
                  request |-> NoRequest, response |-> NoResponse]
    /\ atDeadline = [p \in ProposalIds |-> NoObservation]

\* ------------------------------------------------------------- time
Tick ==
    /\ now < MaxTime
    /\ now' = now + 1
    /\ UNCHANGED storage
    /\ UNCHANGED rest

\* block.timestamp advances under observation: for every proposal whose
\* deadline the new timestamp has reached and that was not observed before,
\* the stake total and the quorum percentage of that moment are noted.
TickObserved ==
    /\ now < MaxTime
    /\ now' = now + 1
    /\ atDeadline' = [p \in DOMAIN atDeadline |->
           IF /\ proposals[p].id # 0
              /\ now + 1 >= proposals[p].deadline
              /\ ~atDeadline[p].recorded
           THEN [recorded |-> TRUE, totalStaked |-> totalStaked,
                 quorumPercentage |-> quorumPercentage]
           ELSE atDeadline[p]]
    /\ UNCHANGED storage
    /\ UNCHANGED <<entered, call, balances, actuation, direct,
                   engine, actuator, gate, backend>>

\* ------------------------------------------------------------- staking
StakeErr(sender, amount, transferOk) ==
    IF ~(amount > 0) THEN ErrAmountZero
    ELSE IF ~transferOk THEN ErrTransferFailed
    ELSE OK

Stake(sender, amount, transferOk) ==
    LET err == StakeErr(sender, amount, transferOk) IN
    /\ stakes[sender] + amount <= MaxStake
    /\ IF err = OK
       THEN /\ stakes' = [stakes EXCEPT ![sender] = @ + amount]
            /\ totalStaked' = totalStaked + amount
       ELSE /\ UNCHANGED staking
    /\ UNCHANGED <<now, owner, config, proposalCount, ballots>>
    /\ UNCHANGED rest

UnstakeErr(sender, amount, transferOk) ==
    IF ~(amount > 0) THEN ErrAmountZero
    ELSE IF ~(stakes[sender] >= amount) THEN ErrInsufficientStake
    ELSE IF ~transferOk THEN ErrTransferFailed
    ELSE OK

\* Mutant: totalStaked is not reduced.
Unstake_KeepTotal(sender, amount, transferOk) ==
    LET err == UnstakeErr(sender, amount, transferOk) IN
    /\ IF err = OK
       THEN /\ stakes' = [stakes EXCEPT ![sender] = @ - amount]
            /\ totalStaked' = totalStaked
       ELSE /\ UNCHANGED staking
    /\ UNCHANGED <<now, owner, config, proposalCount, ballots>>
    /\ UNCHANGED rest

Unstake(sender, amount, transferOk) ==
    LET err == UnstakeErr(sender, amount, transferOk) IN
    /\ IF err = OK
       THEN /\ stakes' = [stakes EXCEPT ![sender] = @ - amount]
            /\ totalStaked' = totalStaked - amount
       ELSE /\ UNCHANGED staking
    /\ UNCHANGED <<now, owner, config, proposalCount, ballots>>
    /\ UNCHANGED rest

\* ------------------------------------------------------------- staking, step by step
\* stake and unstake hand control to the token: the contract calls
\* transferFrom or transfer and the token may call back into the contract
\* before it returns.  The actions below follow such a call through its
\* steps: the call up to the external call, the token moving the amount in
\* its ledger, and the return.  Between the call and the return the other
\* actions run as calls made from inside the token's callback.  A call whose
\* transfer fails reverts as a whole, callbacks included, and leaves no trace:
\* transferOk tells whether the token is going to return true, which it can
\* only do when the ledger holds the amount.

StakeCallErr(sender, amount) ==
    IF entered THEN ErrReentrant
    ELSE IF ~(amount > 0) THEN ErrAmountZero
    ELSE OK

\* stake up to governanceToken.transferFrom(msg.sender, address(this), amount)
StakeCall(sender, amount, transferOk) ==
    LET err == StakeCallErr(sender, amount) IN
    /\ IF err = OK /\ transferOk /\ balances[sender] >= amount
       THEN /\ entered' = TRUE
            /\ call' = [fn |-> "stake", sender |-> sender, amount |-> amount,
                        moved |-> FALSE]
       ELSE /\ UNCHANGED <<entered, call>>
    /\ UNCHANGED <<now, storage, balances, actuation, direct, world>>

\* stake after transferFrom has returned true
StakeReturn ==
    /\ call.fn = "stake"
    /\ call.moved
    /\ stakes' = [stakes EXCEPT ![call.sender] = @ + call.amount]
    /\ totalStaked' = totalStaked + call.amount
    /\ entered' = FALSE
    /\ call' = NoCall
    /\ UNCHANGED <<now, owner, config, proposalCount, ballots, balances, actuation, direct, world>>

\* Mutant: the nonReentrant modifier is missing.
UnstakeCallErr_NoGuard(sender, amount) ==
    IF ~(amount > 0) THEN ErrAmountZero
    ELSE IF ~(stakes[sender] >= amount) THEN ErrInsufficientStake
    ELSE OK

\* Mutant: the stake of the caller is not compared with the amount.
UnstakeCallErr_NoStakeCheck(sender, amount) ==
    IF entered THEN ErrReentrant
    ELSE IF ~(amount > 0) THEN ErrAmountZero
    ELSE OK

UnstakeCallErr(sender, amount) ==
    IF entered THEN ErrReentrant
    ELSE IF ~(amount > 0) THEN ErrAmountZero
    ELSE IF ~(stakes[sender] >= amount) THEN ErrInsufficientStake
    ELSE OK

\* unstake up to governanceToken.transfer(msg.sender, amount)
UnstakeCall(sender, amount, transferOk) ==
    LET err == UnstakeCallErr(sender, amount) IN
    /\ IF err = OK /\ transferOk /\ balances[This] >= amount
       THEN /\ stakes' = [stakes EXCEPT ![sender] = @ - amount]
            /\ totalStaked' = totalStaked - amount
            /\ entered' = TRUE
            /\ call' = [fn |-> "unstake", sender |-> sender, amount |-> amount,
                        moved |-> FALSE]
       ELSE /\ UNCHANGED <<staking, entered, call>>
    /\ UNCHANGED <<now, owner, config, proposalCount, ballots, balances, actuation, direct, world>>

\* unstake after transfer has returned true
UnstakeReturn ==
    /\ call.fn = "unstake"
    /\ call.moved
    /\ entered' = FALSE
    /\ call' = NoCall
    /\ UNCHANGED <<now, storage, balances, actuation, direct, world>>

\* The token moves the amount of the running transfer in its ledger; its
\* callbacks run before or after that.
TokenTransfer ==
    LET from == IF call.fn = "stake" THEN call.sender ELSE This
        to == IF call.fn = "stake" THEN This ELSE call.sender
    IN
    /\ call.fn # "none"
    /\ ~call.moved
    /\ balances[from] >= call.amount
    /\ balances' = [balances EXCEPT ![from] = @ - call.amount,
                                    ![to] = @ + call.amount]
    /\ call' = [call EXCEPT !.moved = TRUE]
    /\ UNCHANGED <<now, storage, entered, actuation, direct, world>>

\* ------------------------------------------------------------- proposals
\* Mutant: the stake check is missing.
ProposeErr_NoStakeCheck(sender, omegaScore) ==
    IF ~(omegaScore <= MaxOmegaScore) THEN ErrInvalidOmega
    ELSE OK

ProposeErr(sender, omegaScore) ==
    IF ~(stakes[sender] >= minStakeToPropose) THEN ErrInsufficientStake
    ELSE IF ~(omegaScore <= MaxOmegaScore) THEN ErrInvalidOmega
    ELSE OK

\* Mutant: the counter is read before it is incremented (proposalCount++).
NextProposalId_PostIncrement == proposalCount

\* uint256 proposalId = ++proposalCount;
NextProposalId == proposalCount + 1

Propose(sender, actionType, actionData, omegaScore, psiIndex, betaAntifragile) ==
    LET err == ProposeErr(sender, omegaScore)
        proposalId == NextProposalId
        deadline == now + votingPeriod
    IN
    /\ proposalCount + 1 \in DOMAIN proposals
    /\ IF err = OK
       THEN /\ proposalCount' = proposalCount + 1
            /\ proposals' = [proposals EXCEPT ![proposalId] =
                   [id |-> proposalId, proposer |-> sender,
                    actionType |-> actionType, actionData |-> actionData,
                    votesFor |-> 0, votesAgainst |-> 0,
                    createdAt |-> now, deadline |-> deadline,
                    status |-> Pending, omegaScore |-> omegaScore,
                    psiIndex |-> psiIndex, betaAntifragile |-> betaAntifragile]]
       ELSE /\ UNCHANGED <<proposalCount, proposals>>
    /\ UNCHANGED <<now, owner, staking, config, votes, hasVoted>>
    /\ UNCHANGED rest

\* Mutant: the hasVoted check is missing.
VoteErr_NoAlreadyVoted(sender, proposalId) ==
    LET proposal == proposals[proposalId] IN
    IF ~(proposal.id # 0) THEN ErrNotFound
    ELSE IF ~(proposal.status = Pending) THEN ErrNotPending
    ELSE IF ~(now < proposal.deadline) THEN ErrVotingEnded
    ELSE IF ~(stakes[sender] > 0) THEN ErrNoVotingPower
    ELSE OK

\* Mutant: the voting-power check is missing.
VoteErr_NoStakeCheck(sender, proposalId) ==
    LET proposal == proposals[proposalId] IN
    IF ~(proposal.id # 0) THEN ErrNotFound
    ELSE IF ~(proposal.status = Pending) THEN ErrNotPending
    ELSE IF ~(now < proposal.deadline) THEN ErrVotingEnded
    ELSE IF ~(~hasVoted[proposalId][sender]) THEN ErrAlreadyVoted
    ELSE OK

\* Mutant: the deadline check is missing.
VoteErr_NoVotingEnded(sender, proposalId) ==
    LET proposal == proposals[proposalId] IN
    IF ~(proposal.id # 0) THEN ErrNotFound
    ELSE IF ~(proposal.status = Pending) THEN ErrNotPending
    ELSE IF ~(~hasVoted[proposalId][sender]) THEN ErrAlreadyVoted
    ELSE IF ~(stakes[sender] > 0) THEN ErrNoVotingPower
    ELSE OK

VoteErr(sender, proposalId) ==
    LET proposal == proposals[proposalId] IN
    IF ~(proposal.id # 0) THEN ErrNotFound
    ELSE IF ~(proposal.status = Pending) THEN ErrNotPending
    ELSE IF ~(now < proposal.deadline) THEN ErrVotingEnded
    ELSE IF ~(~hasVoted[proposalId][sender]) THEN ErrAlreadyVoted
    ELSE IF ~(stakes[sender] > 0) THEN ErrNoVotingPower
    ELSE OK

\* Mutant: the tally is overwritten by the new weight (a lost update).
AddToTally_Overwrite(proposal, support, weight) ==
    IF support
    THEN [proposal EXCEPT !.votesFor = weight]
    ELSE [proposal EXCEPT !.votesAgainst = weight]

\* The tally update of vote: the weight goes to the side the voter supports.
AddToTally(proposal, support, weight) ==
    IF support
    THEN [proposal EXCEPT !.votesFor = @ + weight]
    ELSE [proposal EXCEPT !.votesAgainst = @ + weight]

VoteWeight_One(sender) == 1

\* The weight of a vote: the voter's stake when vote runs.
VoteWeight(sender) == stakes[sender]

Vote(sender, proposalId, support) ==
    LET err == VoteErr(sender, proposalId)
        weight == VoteWeight(sender)
    IN
    /\ IF err = OK
       THEN /\ votes' = [votes EXCEPT ![proposalId][sender] =
                   [voter |-> sender, weight |-> weight,
                    support |-> support, timestamp |-> now]]
            /\ hasVoted' = [hasVoted EXCEPT ![proposalId][sender] = TRUE]
            /\ proposals' = [proposals EXCEPT ![proposalId] =
                   AddToTally(@, support, weight)]
       ELSE /\ UNCHANGED ballots
    /\ UNCHANGED <<now, owner, staking, config, proposalCount>>
    /\ UNCHANGED rest

\* Mutant: the Pending check is missing.
FinalizeErr_NoPendingCheck(proposalId) ==
    LET proposal == proposals[proposalId] IN
    IF ~(proposal.id # 0) THEN ErrNotFound
    ELSE IF ~(now >= proposal.deadline) THEN ErrVotingNotEnded
    ELSE OK

\* Mutant: the deadline check is missing.
FinalizeErr_NoDeadline(proposalId) ==
    LET proposal == proposals[proposalId] IN
    IF ~(proposal.id # 0) THEN ErrNotFound
    ELSE IF ~(proposal.status = Pending) THEN ErrNotPending
    ELSE OK

\* Mutant: finalize is refused at the deadline itself.
FinalizeErr_AfterDeadline(proposalId) ==
    LET proposal == proposals[proposalId] IN
    IF ~(proposal.id # 0) THEN ErrNotFound
    ELSE IF ~(proposal.status = Pending) THEN ErrNotPending
    ELSE IF ~(now > proposal.deadline) THEN ErrVotingNotEnded
    ELSE OK

FinalizeErr(proposalId) ==
    LET proposal == proposals[proposalId] IN
    IF ~(proposal.id # 0) THEN ErrNotFound
    ELSE IF ~(proposal.status = Pending) THEN ErrNotPending
    ELSE IF ~(now >= proposal.deadline) THEN ErrVotingNotEnded
    ELSE OK

\* Mutant: the majority is checked before the quorum.
FinalizeOutcome_MajorityFirst(votesFor, votesAgainst, _totalStaked, _quorumPercentage) ==
    LET totalVotes == votesFor + votesAgainst
        requiredQuorum == (_totalStaked * _quorumPercentage) \div BasisPoints
    IN
    IF votesFor > votesAgainst THEN Approved
    ELSE IF totalVotes < requiredQuorum THEN Expired
    ELSE Rejected

\* Mutant: the quorum check is missing.
FinalizeOutcome_NoQuorum(votesFor, votesAgainst, _totalStaked, _quorumPercentage) ==
    IF votesFor > votesAgainst THEN Approved
    ELSE Rejected

\* Mutant: a tie counts as a majority.
FinalizeOutcome_TieApproves(votesFor, votesAgainst, _totalStaked, _quorumPercentage) ==
    LET totalVotes == votesFor + votesAgainst
        requiredQuorum == (_totalStaked * _quorumPercentage) \div BasisPoints
    IN
    IF totalVotes < requiredQuorum THEN Expired
    ELSE IF votesFor >= votesAgainst THEN Approved
    ELSE Rejected

\* The status finalize assigns: the quorum check, then the majority check.
FinalizeOutcome(votesFor, votesAgainst, _totalStaked, _quorumPercentage) ==
    LET totalVotes == votesFor + votesAgainst
        requiredQuorum == (_totalStaked * _quorumPercentage) \div BasisPoints
    IN
    IF totalVotes < requiredQuorum THEN Expired
    ELSE IF votesFor > votesAgainst THEN Approved
    ELSE Rejected

\* Mutant: the quorum is evaluated against the stake total and the quorum
\* percentage noted when the deadline passed.
Finalize_AtDeadline(proposalId) ==
    LET err == FinalizeErr(proposalId)
        proposal == proposals[proposalId]
        seen == atDeadline[proposalId]
    IN
    /\ IF err = OK
       THEN proposals' = [proposals EXCEPT ![proposalId].status =
                FinalizeOutcome(proposal.votesFor, proposal.votesAgainst,
                    IF seen.recorded THEN seen.totalStaked ELSE totalStaked,
                    IF seen.recorded THEN seen.quorumPercentage
                                     ELSE quorumPercentage)]
       ELSE UNCHANGED proposals
    /\ UNCHANGED <<now, owner, staking, config, proposalCount, votes, hasVoted>>
    /\ UNCHANGED rest

Finalize(proposalId) ==
    LET err == FinalizeErr(proposalId)
        proposal == proposals[proposalId]
    IN
    /\ IF err = OK
       THEN proposals' = [proposals EXCEPT ![proposalId].status =
                FinalizeOutcome(proposal.votesFor, proposal.votesAgainst,
                                totalStaked, quorumPercentage)]
       ELSE UNCHANGED proposals
    /\ UNCHANGED <<now, owner, staking, config, proposalCount, votes, hasVoted>>
    /\ UNCHANGED rest

\* Mutant: the onlyOwner modifier is missing.
MarkExecutedErr_NoOwnerCheck(sender, proposalId) ==
    LET proposal == proposals[proposalId] IN
    IF ~(proposal.id # 0) THEN ErrNotFound
    ELSE IF ~(proposal.status = Approved) THEN ErrNotApproved
    ELSE OK

\* Mutant: accepts any finalized proposal instead of an Approved one.
MarkExecutedErr_AnyFinalized(sender, proposalId) ==
    LET proposal == proposals[proposalId] IN
    IF ~(sender = owner) THEN ErrUnauthorized
    ELSE IF ~(proposal.id # 0) THEN ErrNotFound
    ELSE IF ~(proposal.status # Pending) THEN ErrNotApproved
    ELSE OK

\* Mutant: the status check is missing.
MarkExecutedErr_NoStatusCheck(sender, proposalId) ==
    LET proposal == proposals[proposalId] IN
    IF ~(sender = owner) THEN ErrUnauthorized
    ELSE IF ~(proposal.id # 0) THEN ErrNotFound
    ELSE OK

MarkExecutedErr(sender, proposalId) ==
    LET proposal == proposals[proposalId] IN
    IF ~(sender = owner) THEN ErrUnauthorized
    ELSE IF ~(proposal.id # 0) THEN ErrNotFound
    ELSE IF ~(proposal.status = Approved) THEN ErrNotApproved
    ELSE OK

MarkExecuted(sender, proposalId) ==
    LET err == MarkExecutedErr(sender, proposalId) IN
    /\ IF err = OK
       THEN /\ proposals' = [proposals EXCEPT ![proposalId].status = Executed]
       ELSE /\ UNCHANGED proposals
    /\ UNCHANGED <<now, owner, staking, config, proposalCount, votes, hasVoted>>
    /\ UNCHANGED rest

\* ------------------------------------------------------------- admin
\* Mutant: the quorum check is missing.
UpdateParametersErr_NoQuorumCheck(sender, _quorumPercentage) ==
    IF ~(sender = owner) THEN ErrUnauthorized
    ELSE OK

UpdateParametersErr(sender, _quorumPercentage) ==
    IF ~(sender = owner) THEN ErrUnauthorized
    ELSE IF ~(_quorumPercentage <= BasisPoints) THEN ErrInvalidQuorum
    ELSE OK

\* Mutant: the new voting period moves the deadline of every Pending proposal.
UpdateParameters_MovesDeadlines(sender, _minStakeToPropose, _quorumPercentage, _votingPeriod) ==
    LET err == UpdateParametersErr(sender, _quorumPercentage) IN
    /\ IF err = OK
       THEN /\ minStakeToPropose' = _minStakeToPropose
            /\ quorumPercentage' = _quorumPercentage
            /\ votingPeriod' = _votingPeriod
            /\ proposals' = [p \in DOMAIN proposals |->
                   IF proposals[p].id # 0 /\ proposals[p].status = Pending
                   THEN [proposals[p] EXCEPT
                            !.deadline = proposals[p].createdAt + _votingPeriod]
                   ELSE proposals[p]]
       ELSE /\ UNCHANGED <<config, proposals>>
    /\ UNCHANGED <<now, owner, staking, proposalCount, votes, hasVoted>>
    /\ UNCHANGED rest

UpdateParameters(sender, _minStakeToPropose, _quorumPercentage, _votingPeriod) ==
    LET err == UpdateParametersErr(sender, _quorumPercentage) IN
    /\ IF err = OK
       THEN /\ minStakeToPropose' = _minStakeToPropose
            /\ quorumPercentage' = _quorumPercentage
            /\ votingPeriod' = _votingPeriod
       ELSE /\ UNCHANGED config
    /\ UNCHANGED <<now, owner, staking, proposalCount, ballots>>
    /\ UNCHANGED rest

\* ------------------------------------------------------------- events
\* The events a call emits when made in the current state, in order; a call
\* that reverts emits none.
StakeEvents(sender, amount, transferOk) ==
    IF StakeErr(sender, amount, transferOk) # OK THEN << >>
    ELSE << [name |-> "Staked", user |-> sender, amount |-> amount] >>

UnstakeEvents(sender, amount, transferOk) ==
    IF UnstakeErr(sender, amount, transferOk) # OK THEN << >>
    ELSE << [name |-> "Unstaked", user |-> sender, amount |-> amount] >>

FinalizeEvents(proposalId) ==
    LET proposal == proposals[proposalId]
        outcome == FinalizeOutcome(proposal.votesFor, proposal.votesAgainst,
                                   totalStaked, quorumPercentage)
    IN
    IF FinalizeErr(proposalId) # OK THEN << >>
    ELSE IF outcome = Expired THEN << >>
    ELSE IF outcome = Approved
    THEN << [name |-> "ProposalApproved", proposalId |-> proposalId,
             votesFor |-> proposal.votesFor, votesAgainst |-> proposal.votesAgainst] >>
    ELSE << [name |-> "ProposalRejected", proposalId |-> proposalId,
             votesFor |-> proposal.votesFor, votesAgainst |-> proposal.votesAgainst] >>

MarkExecutedEvents(sender, proposalId) ==
    IF MarkExecutedErr(sender, proposalId) # OK THEN << >>
    ELSE << [name |-> "ProposalExecuted", proposalId |-> proposalId,
             executor |-> sender] >>

\* ------------------------------------------------------------- views
\* Mutant: divides by 100, as if quorumPercentage were a plain percentage.
GetQuorumThreshold_Percent == (totalStaked * quorumPercentage) \div 100

GetQuorumThreshold == (totalStaked * quorumPercentage) \div BasisPoints

\* Mutant: true of every proposal that is no longer Pending.
IsApproved_NotPending(proposalId) == proposals[proposalId].status # Pending

\* Mutant: still true of a proposal that has been executed.
IsApproved_OrExecuted(proposalId) ==
    proposals[proposalId].status \in {Approved, Executed}

IsApproved(proposalId) == proposals[proposalId].status = Approved

GetVotingPower(voter) == stakes[voter]

GetProposal(proposalId) == proposals[proposalId]

\* ------------------------------------------------------------- next-state
Next ==
    \/ Tick
    \/ \E a \in Accounts, n \in Amounts, ok \in BOOLEAN : Stake(a, n, ok)
    \/ \E a \in Accounts, n \in Amounts, ok \in BOOLEAN : Unstake(a, n, ok)
    \/ \E a \in Accounts, t \in ActionTypes, d \in ActionData, o \in OmegaInputs,
          p \in PsiInputs, b \in BetaInputs : Propose(a, t, d, o, p, b)
    \/ \E a \in Accounts, p \in ProposalIds, s \in BOOLEAN : Vote(a, p, s)
    \/ \E p \in ProposalIds : Finalize(p)
    \/ \E a \in Accounts, p \in ProposalIds : MarkExecuted(a, p)
    \/ \E a \in Accounts, m \in MinStakes, q \in QuorumInputs, v \in VotingPeriods :
          UpdateParameters(a, m, q, v)

Spec == Init /\ [][Next]_vars

\* ------------------------------------------------------------- observed deadlines
\* A specification of the same contract in which the passing of a deadline is
\* observed (TickObserved), for the properties that compare the stake total
\* and the quorum percentage finalize reads with the ones of the deadline.
\* No transfer fails, nothing is marked executed, the owner is the one to
\* propose and updateParameters changes the quorum percentage only; the
\* handlers are the ones of Spec.
NextLive ==
    \/ TickObserved
    \/ \E a \in Accounts, n \in Amounts : Stake(a, n, TRUE)
    \/ \E a \in Accounts, n \in Amounts : Unstake(a, n, TRUE)
    \/ \E t \in ActionTypes, d \in ActionData, o \in OmegaInputs,
          p \in PsiInputs, b \in BetaInputs : Propose(owner, t, d, o, p, b)
    \/ \E a \in Accounts, p \in ProposalIds, s \in BOOLEAN : Vote(a, p, s)
    \/ \E p \in ProposalIds : Finalize(p)
    \/ \E a \in Accounts, q \in QuorumInputs :
          UpdateParameters(a, minStakeToPropose, q, votingPeriod)

SpecLive == Init /\ [][NextLive]_vars

\* ------------------------------------------------------------- fair scheduling
\* The contract on a chain that keeps producing blocks and with a caller who
\* keeps calling finalize: block.timestamp advances as long as it is below
\* MaxTime, and a finalize that can succeed is eventually sent.  propose is
\* not taken when the deadline would lie beyond MaxTime.  No transfer fails
\* and the configuration stays as constructed; the handlers are the ones of
\* Spec.
NextFair ==
    \/ Tick
    \/ \E a \in Accounts, n \in Amounts : Stake(a, n, TRUE)
    \/ \E a \in Accounts, n \in Amounts : Unstake(a, n, TRUE)
    \/ \E a \in Accounts, t \in ActionTypes, d \in ActionData, o \in OmegaInputs,
          p \in PsiInputs, b \in BetaInputs :
             now + votingPeriod <= MaxTime /\ Propose(a, t, d, o, p, b)
    \/ \E a \in Accounts, p \in ProposalIds, s \in BOOLEAN : Vote(a, p, s)
    \/ \E p \in ProposalIds : Finalize(p)
    \/ \E a \in Accounts, p \in ProposalIds : MarkExecuted(a, p)

SpecFair ==
    /\ Init
    /\ [][NextFair]_vars
    /\ WF_vars(Tick)
    /\ \A p \in ProposalIds : WF_vars(Finalize(p))

\* ------------------------------------------------------------- several proposals
\* A second specification of the same contract for the properties of the
\* proposal counter.  It addresses the ids of ManyIds, so that two proposals
\* exist side by side; propose is not taken once both ids above 0 are
\* assigned.  To keep the state space small the configuration is fixed at
\* construction, every stake is the whole of MaxStake and no transfer fails;
\* the handlers are the ones of Spec.
ManyIds == {0, 1, 2}

InitIds ==
    /\ now = 0
    /\ owner = Deployer
    /\ stakes = [a \in Accounts |-> 0]
    /\ totalStaked = 0
    /\ minStakeToPropose \in MinStakes
    /\ quorumPercentage \in {q \in QuorumInputs : q <= BasisPoints}
    /\ votingPeriod \in VotingPeriods
    /\ proposalCount = 0
    /\ proposals = [p \in ManyIds |-> ZeroProposal]
    /\ votes = [p \in ManyIds |-> [a \in Accounts |-> ZeroVote]]
    /\ hasVoted = [p \in ManyIds |-> [a \in Accounts |-> FALSE]]
    /\ entered = FALSE
    /\ call = NoCall
    /\ balances = [h \in Holders |-> IF h = This THEN 0 ELSE MaxStake]
    /\ actuation = [p \in ManyIds |-> NoActuation]
    /\ direct = "NOOP"
    /\ decisionMode = "Balanced"
    /\ prediction = NoPrediction
    /\ target = [replicas |-> InitialReplicas, locked |-> FALSE, busy |-> 0]
    /\ inflight = [d \in DecisionIds |-> NoDecision]
    /\ gate = NoEvaluation
    /\ backend = [handled |-> 0, aiCalls |-> 0, decisions |-> <<>>,
                  request |-> NoRequest, response |-> NoResponse]
    /\ atDeadline = [p \in ManyIds |-> NoObservation]

NextIds ==
    \/ Tick
    \/ \E a \in Accounts : Stake(a, MaxStake, TRUE)
    \/ \E a \in Accounts : Unstake(a, MaxStake, TRUE)
    \/ \E a \in Accounts, t \in ActionTypes, d \in ActionData, o \in OmegaInputs,
          p \in PsiInputs, b \in BetaInputs : Propose(a, t, d, o, p, b)
    \/ \E a \in Accounts, p \in ManyIds, s \in BOOLEAN : Vote(a, p, s)
    \/ \E p \in ManyIds : Finalize(p)
    \/ \E a \in Accounts, p \in ManyIds : MarkExecuted(a, p)

SpecIds == InitIds /\ [][NextIds]_vars

\* ------------------------------------------------------------- proposals and parameters
\* The contract with the ids of ManyIds while the owner changes the voting
\* period between proposals.  Every stake is the whole of MaxStake and stays,
\* no transfer fails, the owner is the one to propose and updateParameters
\* keeps the minimum stake and the quorum percentage.  The handlers are the
\* ones of Spec.
NextFrame ==
    \/ Tick
    \/ \E a \in Accounts : Stake(a, MaxStake, TRUE)
    \/ \E t \in ActionTypes, d \in ActionData, o \in OmegaInputs,
          p \in PsiInputs, b \in BetaInputs : Propose(owner, t, d, o, p, b)
    \/ \E a \in Accounts, p \in ManyIds, s \in BOOLEAN : Vote(a, p, s)
    \/ \E p \in ManyIds : Finalize(p)
    \/ \E a \in Accounts, p \in ManyIds : MarkExecuted(a, p)
    \/ \E a \in Accounts, v \in VotingPeriods :
          UpdateParameters(a, minStakeToPropose, quorumPercentage, v)

SpecFrame == InitIds /\ [][NextFrame]_vars

\* ------------------------------------------------------------- wide snapshots
\* The contract when propose is handed snapshots whose psiIndex and
\* betaAntifragile go beyond 1000 and 2000.  To keep the state space small
\* every stake is the whole of MaxStake and no transfer fails.
PsiWide == {970, 1001}
BetaWide == {1200, 2001}

NextSnapshot ==
    \/ Tick
    \/ \E a \in Accounts : Stake(a, MaxStake, TRUE)
    \/ \E a \in Accounts : Unstake(a, MaxStake, TRUE)
    \/ \E a \in Accounts, t \in ActionTypes, d \in ActionData, o \in OmegaInputs,
          p \in PsiWide, b \in BetaWide : Propose(a, t, d, o, p, b)
    \/ \E a \in Accounts, p \in ProposalIds, s \in BOOLEAN : Vote(a, p, s)
    \/ \E p \in ProposalIds : Finalize(p)

SpecSnapshot == Init /\ [][NextSnapshot]_vars

\* ------------------------------------------------------------- calls in steps
\* A third specification, in which stake and unstake run step by step and
\* every account may call the contract from inside the token's callback.
\* Every account holds MaxStake tokens at the start.  block.timestamp does
\* not move inside a transaction.  markExecuted and updateParameters, which
\* touch neither stakes nor votes nor tokens, are left to Spec.
NextCall ==
    \/ call = NoCall /\ Tick
    \/ \E a \in Accounts, n \in Amounts, ok \in BOOLEAN : StakeCall(a, n, ok)
    \/ StakeReturn
    \/ \E a \in Accounts, n \in Amounts, ok \in BOOLEAN : UnstakeCall(a, n, ok)
    \/ UnstakeReturn
    \/ TokenTransfer
    \/ \E a \in Accounts, t \in ActionTypes, d \in ActionData, o \in OmegaInputs,
          p \in PsiInputs, b \in BetaInputs : Propose(a, t, d, o, p, b)
    \/ \E a \in Accounts, p \in ProposalIds, s \in BOOLEAN : Vote(a, p, s)
    \/ \E p \in ProposalIds : Finalize(p)

SpecCall == Init /\ [][NextCall]_vars

\* ------------------------------------------------------------- staking alone
\* stake and unstake step by step with nothing else going on: the calls, the
\* token's ledger and the returns, as in SpecCall, and the clock.
NextStaking ==
    \/ call = NoCall /\ Tick
    \/ \E a \in Accounts, n \in Amounts, ok \in BOOLEAN : StakeCall(a, n, ok)
    \/ StakeReturn
    \/ \E a \in Accounts, n \in Amounts, ok \in BOOLEAN : UnstakeCall(a, n, ok)
    \/ UnstakeReturn
    \/ TokenTransfer

SpecStaking == Init /\ [][NextStaking]_vars

\* ------------------------------------------------------------- actuation
\* The DecisionEngine's Act stage and the Actuator are not part of the
\* contract; they are modelled as the specification describes them.  The
\* engine resolves to NOOP below the confidence its mode demands, dispatches
\* SCALE_UP, SCALE_DOWN and RETUNE directly, and takes ROLLBACK and
\* EMERGENCY_STOP to the contract as a proposal.  The operator, which is the
\* contract's owner, hands an approved proposal to the Actuator, tries again
\* after a failure, and calls markExecuted after a success.  The Actuator
\* applies an action once per proposal id: a new attempt after a partial
\* failure does not apply it again, and is noted as a reinvocation.
\* Confidence is in percent.
DecisionModes == {"Conservative", "Balanced", "Aggressive"}
Confidences == {40, 60, 75, 90}
Actions == {"SCALE_UP", "SCALE_DOWN", "RETUNE", "ROLLBACK", "EMERGENCY_STOP", "NOOP"}
GatedActions == {"ROLLBACK", "EMERGENCY_STOP"}
Outcomes == {"failure", "partial", "success"}

MinConfidence_AlwaysAggressive(mode) == 50

MinConfidence(mode) ==
    CASE mode = "Conservative" -> 85
      [] mode = "Balanced" -> 70
      [] mode = "Aggressive" -> 50

Act(action, mode, confidence) ==
    IF confidence < MinConfidence(mode) \/ action = "NOOP"
    THEN UNCHANGED vars
    ELSE IF action \in GatedActions
    THEN \E d \in ActionData, o \in OmegaInputs, p \in PsiInputs, b \in BetaInputs :
             Propose(owner, action, d, o, p, b)
    ELSE /\ direct' = action
         /\ UNCHANGED <<now, storage, entered, call, balances, actuation, world>>

Execute_Reapply(proposalId, outcome) ==
    LET a == actuation[proposalId]
        applies == outcome # "failure"
    IN
    /\ IsApproved(proposalId)
    /\ a.succeeded = 0
    /\ actuation' = [actuation EXCEPT ![proposalId] =
           [dispatched |-> TRUE,
            applied |-> IF applies THEN a.applied + 1 ELSE a.applied,
            succeeded |-> IF outcome = "success" THEN 1 ELSE 0,
            reinvoked |-> a.reinvoked \/ a.applied > 0]]
    /\ UNCHANGED <<now, storage, entered, call, balances, direct, world>>

Execute(proposalId, outcome) ==
    LET a == actuation[proposalId]
        applies == outcome # "failure" /\ a.applied = 0
    IN
    /\ IsApproved(proposalId)
    /\ a.succeeded = 0
    /\ actuation' = [actuation EXCEPT ![proposalId] =
           [dispatched |-> TRUE,
            applied |-> IF applies THEN a.applied + 1 ELSE a.applied,
            succeeded |-> IF outcome = "success" THEN 1 ELSE 0,
            reinvoked |-> a.reinvoked \/ a.applied > 0]]
    /\ UNCHANGED <<now, storage, entered, call, balances, direct, world>>

Confirm(proposalId) ==
    /\ actuation[proposalId].succeeded = 1
    /\ MarkExecuted(owner, proposalId)

\* The contract with the engine, the operator and the Actuator around it.
\* To keep the state space small every stake is the whole of MaxStake and no
\* transfer fails; the accounts other than the owner call markExecuted too.
NextAct ==
    \/ Tick
    \/ \E a \in Accounts : Stake(a, MaxStake, TRUE)
    \/ \E a \in Accounts, p \in ProposalIds, s \in BOOLEAN : Vote(a, p, s)
    \/ \E p \in ProposalIds : Finalize(p)
    \/ \E a \in Accounts \ {owner}, p \in ProposalIds : MarkExecuted(a, p)
    \/ \E x \in Actions, m \in DecisionModes, c \in Confidences : Act(x, m, c)
    \/ \E p \in ProposalIds, o \in Outcomes : Execute(p, o)
    \/ \E p \in ProposalIds : Confirm(p)

SpecAct == Init /\ [][NextAct]_vars

\* ------------------------------------------------------------- engine cycle
\* One cycle of the DecisionEngine in its stages: the Orient stage leaves the
\* predicted action with its confidence, the Decide and Act stages apply the
\* policy of the mode in force to that prediction.  The mode is the one the
\* engine was built with until the operator sets another.
SetMode(m) ==
    /\ decisionMode' = m
    /\ UNCHANGED <<chain, prediction, actuator, gate, backend>>

Orient(action, confidence) ==
    /\ prediction' = [action |-> action, confidence |-> confidence]
    /\ UNCHANGED <<chain, decisionMode, actuator, gate, backend>>

Decide ==
    Act(prediction.action, decisionMode, prediction.confidence)

\* The engine with the contract it proposes to; the stake lets the owner
\* propose.
NextEngine ==
    \/ \E a \in Accounts : Stake(a, MaxStake, TRUE)
    \/ \E m \in DecisionModes : SetMode(m)
    \/ \E x \in Actions, c \in Confidences : Orient(x, c)
    \/ Decide

SpecEngine == Init /\ [][NextEngine]_vars

\* ------------------------------------------------------------- actuator
\* The Actuator executes one action at a time against its target, under the
\* target's lock.  A Decision that finds the lock free takes it and runs; one
\* that finds it held waits, and either takes the lock when it is released
\* within the wait or is dropped when the wait runs out, which counts in the
\* Busy counter.  A Decision that ends releases the lock; unless the
\* actuation failed its action has taken effect: SCALE_UP adds ScaleUpStep
\* replicas up to MaxReplicas, SCALE_DOWN removes one down to MinReplicas.
\* Decisions are numbered in the order of their arrival.
ScaleActions == {"SCALE_UP", "SCALE_DOWN"}

Min(a, b) == IF a < b THEN a ELSE b
Max(a, b) == IF a > b THEN a ELSE b

Scaled_Unclamped(action, replicas) ==
    CASE action = "SCALE_UP" -> replicas + ScaleUpStep
      [] action = "SCALE_DOWN" -> replicas - 1
      [] OTHER -> replicas

Scaled(action, replicas) ==
    CASE action = "SCALE_UP" -> Min(replicas + ScaleUpStep, MaxReplicas)
      [] action = "SCALE_DOWN" -> Max(replicas - 1, MinReplicas)
      [] OTHER -> replicas

LockFree_Always == TRUE

LockFree == ~target.locked

Arrive(d, action) ==
    /\ inflight[d].fate = "none"
    /\ IF d = 1 THEN TRUE ELSE inflight[d - 1].fate # "none"
    /\ IF LockFree
       THEN /\ target' = [target EXCEPT !.locked = TRUE]
            /\ inflight' = [inflight EXCEPT ![d] = [action |-> action, fate |-> "running"]]
       ELSE /\ inflight' = [inflight EXCEPT ![d] = [action |-> action, fate |-> "waiting"]]
            /\ UNCHANGED target
    /\ UNCHANGED <<chain, engine, gate, backend>>

Acquire(d) ==
    /\ inflight[d].fate = "waiting"
    /\ LockFree
    /\ target' = [target EXCEPT !.locked = TRUE]
    /\ inflight' = [inflight EXCEPT ![d].fate = "running"]
    /\ UNCHANGED <<chain, engine, gate, backend>>

BusyAfterDrop_Unchanged == target.busy

BusyAfterDrop == target.busy + 1

Drop(d) ==
    /\ inflight[d].fate = "waiting"
    /\ ~LockFree
    /\ target' = [target EXCEPT !.busy = BusyAfterDrop]
    /\ inflight' = [inflight EXCEPT ![d].fate = "dropped"]
    /\ UNCHANGED <<chain, engine, gate, backend>>

Finish(d, success) ==
    /\ inflight[d].fate = "running"
    /\ target' = [target EXCEPT
           !.replicas = IF success THEN Scaled(inflight[d].action, @) ELSE @,
           !.locked = FALSE]
    /\ inflight' = [inflight EXCEPT ![d].fate = "done"]
    /\ UNCHANGED <<chain, engine, gate, backend>>

NextActuator ==
    \/ \E d \in DecisionIds, x \in ScaleActions : Arrive(d, x)
    \/ \E d \in DecisionIds : Acquire(d)
    \/ \E d \in DecisionIds : Drop(d)
    \/ \E d \in DecisionIds, ok \in BOOLEAN : Finish(d, ok)

SpecActuator == Init /\ [][NextActuator]_vars

\* ------------------------------------------------------------- OmegaGate
\* The OmegaGate contract (src/contracts/contracts/OmegaGate.sol) has one
\* function and no storage; gate holds what the last call of evaluate was
\* given, what it returned and the DecisionEvaluated event it emitted.  The
\* scores are scaled by 10000.
OMEGA_THRESHOLD == 8500
CVAR_MAX == 500

Decision == {"ACCELERATE", "MONITOR", "PAUSE"}

OmegaScaled == {5000, 6500, 6501, 6800, 6999, 7000, 8499, 8500, 8501, 8700}
CvarScaled == {0, 15, 70, 120, 499, 500, 999, 1000}

Recommendation(omega_score_scaled, cvar_95_scaled) ==
    IF omega_score_scaled >= OMEGA_THRESHOLD /\ cvar_95_scaled < CVAR_MAX
    THEN "ACCELERATE"
    ELSE IF omega_score_scaled >= 7000
    THEN "MONITOR"
    ELSE "PAUSE"

Evaluate(sender, omega_score_scaled, cvar_95_scaled) ==
    LET recommendation == Recommendation(omega_score_scaled, cvar_95_scaled) IN
    /\ gate' = [called |-> TRUE,
                omega_score_scaled |-> omega_score_scaled,
                cvar_95_scaled |-> cvar_95_scaled,
                returned |-> recommendation,
                emitted |-> [user |-> sender, recommendation |-> recommendation,
                             omega_score |-> omega_score_scaled]]
    /\ UNCHANGED <<chain, engine, actuator, backend>>

NextGate ==
    \E a \in Accounts, o \in OmegaScaled, c \in CvarScaled : Evaluate(a, o, c)

SpecGate == Init /\ [][NextGate]_vars

\* ------------------------------------------------------------- backend
\* The HTTP backend (src/backend/server.js): the routes under /api/decisions
\* and /api/metrics are mounted behind authMiddleware, the ones under
\* /api/auth are public.  One request is one action: the middleware and, if
\* it calls next, the route handler with its calls of the AI service and of
\* the Decision collection.  The Authorization header is held as the parts
\* that header.split(' ') yields.  A token is a string; Signed gives, for the
\* well-formed ones, the payload and the secret they are signed with, jwt.decode
\* throws for every other string and for a signature made with another
\* secret.  Scores of the AI service are in percent.
JWT_SECRET == "changeme"

Signed ==
    [t \in {"jwt.demo", "jwt.ana", "jwt.forged"} |->
        CASE t = "jwt.demo" -> [payload |-> [email |-> "demo@symbios.ai"], secret |-> JWT_SECRET]
          [] t = "jwt.ana" -> [payload |-> [email |-> "ana@symbios.ai"], secret |-> JWT_SECRET]
          [] t = "jwt.forged" -> [payload |-> [email |-> "demo@symbios.ai"], secret |-> "guessed"]]

CreateToken(payload) ==
    CHOOSE t \in DOMAIN Signed : Signed[t] = [payload |-> payload, secret |-> JWT_SECRET]

JwtDecode(token, key) ==
    IF token \in DOMAIN Signed /\ Signed[token].secret = key
    THEN [ok |-> TRUE, payload |-> Signed[token].payload]
    ELSE [ok |-> FALSE, payload |-> [email |-> ""]]

Headers ==
    {NoHeader} \cup
    {[present |-> TRUE, parts |-> p] :
        p \in {<<"Bearer">>, <<"Bearer", "", "jwt.demo">>,
               <<"Basic", "jwt.demo">>, <<"bearer", "jwt.demo">>,
               <<"Bearer", "garbage">>, <<"Bearer", "jwt.forged">>,
               <<"Bearer", CreateToken([email |-> "demo@symbios.ai"])>>,
               <<"Bearer", CreateToken([email |-> "ana@symbios.ai"])>>}}

AiReplies ==
    {NoReply,
     [ok |-> TRUE, omega_score |-> 90, recommendation |-> "ACCELERATE"],
     [ok |-> TRUE, omega_score |-> 60, recommendation |-> "PAUSE"]}

Rejected401(error) ==
    [next |-> FALSE, user |-> [email |-> ""],
     response |-> [status |-> 401, error |-> error, decision |-> NoRecord,
                   token |-> ""]]

AuthMiddleware_AnyScheme(header) ==
    IF ~header.present
    THEN Rejected401("Missing Authorization header")
    ELSE LET token == IF Len(header.parts) >= 2 THEN header.parts[2] ELSE ""
             decoded == JwtDecode(token, JWT_SECRET)
         IN IF token = ""
            THEN Rejected401("Invalid Authorization format")
            ELSE IF decoded.ok
            THEN [next |-> TRUE, user |-> decoded.payload, response |-> NoResponse]
            ELSE Rejected401("Invalid token")

AuthMiddleware(header) ==
    IF ~header.present
    THEN Rejected401("Missing Authorization header")
    ELSE LET scheme == header.parts[1]
             token == IF Len(header.parts) >= 2 THEN header.parts[2] ELSE ""
             decoded == JwtDecode(token, JWT_SECRET)
         IN IF scheme # "Bearer" \/ token = ""
            THEN Rejected401("Invalid Authorization format")
            ELSE IF decoded.ok
            THEN [next |-> TRUE, user |-> decoded.payload, response |-> NoResponse]
            ELSE Rejected401("Invalid token")

Protected(path) == path \in {"/api/decisions", "/api/metrics"}

\* router.post('/') of routes/decisions.js: what it answers and what the
\* Decision collection holds afterwards.
DecisionsPost_NoCatch(user, ai, db, stored) ==
    LET userId == IF user.email # "" THEN user.email ELSE "anonymous"
        record == [userId |-> userId, omegaScore |-> ai.omega_score,
                   recommendation |-> ai.recommendation]
    IN IF ai.ok
       THEN [response |-> [status |-> 201, error |-> "", decision |-> record,
                           token |-> ""],
             decisions |-> IF db THEN Append(stored, record) ELSE stored]
       ELSE [response |-> [status |-> 502, error |-> "Decision pipeline failed",
                           decision |-> NoRecord, token |-> ""],
             decisions |-> stored]

DecisionsPost(user, ai, db, stored) ==
    LET userId == IF user.email # "" THEN user.email ELSE "anonymous"
        record == [userId |-> userId, omegaScore |-> ai.omega_score,
                   recommendation |-> ai.recommendation]
    IN IF ai.ok /\ db
       THEN [response |-> [status |-> 201, error |-> "", decision |-> record,
                           token |-> ""],
             decisions |-> Append(stored, record)]
       ELSE [response |-> [status |-> 502, error |-> "Decision pipeline failed",
                           decision |-> NoRecord, token |-> ""],
             decisions |-> stored]

\* The handlers that only read: router.get('/') of routes/decisions.js and
\* the routes of routes/metrics.js, which answer 500 when the query fails.
ReadOnly(path, db) ==
    IF path = "/api/metrics" /\ ~db
    THEN [status |-> 500, error |-> "query failed", decision |-> NoRecord,
          token |-> ""]
    ELSE [status |-> 200, error |-> "", decision |-> NoRecord, token |-> ""]

\* router.post('/login') of routes/auth.js.
DEFAULT_EMAIL == "demo@symbios.ai"
DEFAULT_PASSWORD == "password"

Login(body) ==
    IF body.email # DEFAULT_EMAIL \/ body.password # DEFAULT_PASSWORD
    THEN [status |-> 401, error |-> "Invalid credentials", decision |-> NoRecord,
          token |-> ""]
    ELSE [status |-> 200, error |-> "", decision |-> NoRecord,
          token |-> CreateToken([email |-> body.email])]

Request(method, path, header, body, ai, db) ==
    LET auth == IF Protected(path)
                THEN AuthMiddleware(header)
                ELSE [next |-> TRUE, user |-> [email |-> ""], response |-> NoResponse]
        request == [method |-> method, path |-> path, header |-> header,
                    body |-> body, ai |-> ai, db |-> db]
        post == DecisionsPost(auth.user, ai, db, backend.decisions)
    IN
    /\ backend.handled < MaxRequests
    /\ backend' =
          IF ~auth.next
          THEN [backend EXCEPT !.request = request, !.response = auth.response]
          ELSE IF path = "/api/auth"
          THEN [backend EXCEPT !.handled = @ + 1, !.request = request,
                               !.response = Login(body)]
          ELSE IF method = "POST" /\ path = "/api/decisions"
          THEN [handled |-> backend.handled + 1,
                aiCalls |-> backend.aiCalls + 1,
                decisions |-> post.decisions,
                request |-> request,
                response |-> post.response]
          ELSE [backend EXCEPT !.handled = @ + 1, !.request = request,
                               !.response = ReadOnly(path, db)]
    /\ UNCHANGED <<chain, engine, actuator, gate>>

Bodies ==
    {[email |-> DEFAULT_EMAIL, password |-> DEFAULT_PASSWORD],
     [email |-> DEFAULT_EMAIL, password |-> "guess"]}

NextBackend ==
    \/ \E h \in Headers, ai \in AiReplies, db \in BOOLEAN :
          Request("POST", "/api/decisions", h, NoBody, ai, db)
    \/ \E h \in Headers : Request("GET", "/api/decisions", h, NoBody, NoReply, TRUE)
    \/ \E h \in Headers, db \in BOOLEAN :
          Request("GET", "/api/metrics", h, NoBody, NoReply, db)
    \/ \E b \in Bodies : Request("POST", "/api/auth", NoHeader, b, NoReply, TRUE)

SpecBackend == Init /\ [][NextBackend]_vars

\* ============================================================= properties
Known(p) == proposals[p].id # 0
Resolved == {Approved, Rejected, Expired}

\* C1, the step part.
C1_StatusStep ==
    \A p \in ProposalIds :
        LET s == proposals[p].status
            t == proposals'[p].status
        IN
        /\ s # t =>
              \/ s = Pending /\ t \in Resolved /\ Finalize(p)
              \/ s \in Resolved /\ t = Executed
                 /\ \E a \in Accounts : MarkExecuted(a, p)
        /\ s = Executed => t = Executed
        /\ (Known(p) /\ s # Pending) => t # Pending

\* C1: a proposal's status changes only from Pending to Approved, Rejected or
\* Expired, by finalize, and from one of those to Executed, by markExecuted;
\* an Executed proposal keeps its status and no proposal returns to Pending.
C1_StatusMachine == [][C1_StatusStep]_vars

C1_Witness == \E p \in ProposalIds : proposals[p].status = Executed

\* C2, state and step parts.
C2_State ==
    \A p \in ProposalIds :
        /\ proposals[p].status # Pending => now >= proposals[p].deadline
        /\ (Known(p) /\ proposals[p].status = Pending /\ now < proposals[p].deadline)
              => FinalizeErr(p) = ErrVotingNotEnded

C2_Step ==
    \A p \in ProposalIds :
        /\ (proposals[p].status = Pending /\ proposals'[p].status # Pending)
              => now >= proposals[p].deadline
        /\ (Known(p) /\ proposals[p].status # Pending)
              => proposals'[p].status # Pending
        /\ (now < proposals[p].deadline /\ proposals'[p] # proposals[p])
              => ~Finalize(p)

\* C2: a proposal leaves Pending only at a time at or after its deadline and
\* never becomes Pending again; before the deadline finalize fails with
\* "Voting not ended" and the proposal stays as it is.
C2_LeavesPendingOnceAfterDeadline == []C2_State /\ [][C2_Step]_vars

C2_Witness ==
    \E p \in ProposalIds :
        /\ proposals[p].status \in Resolved
        /\ proposals[p].createdAt < proposals[p].deadline
        /\ now >= proposals[p].deadline

\* C3, the status the claim expects and the step part.
C3_Expected(p) ==
    LET quorum == (totalStaked * quorumPercentage) \div 10000
        cast == proposals[p].votesFor + proposals[p].votesAgainst
    IN
    IF cast < quorum THEN Expired
    ELSE IF proposals[p].votesFor > proposals[p].votesAgainst THEN Approved
    ELSE Rejected

C3_Step ==
    \A p \in ProposalIds :
        /\ (FinalizeErr(p) = OK /\ Finalize(p))
              => proposals'[p].status = C3_Expected(p)
        /\ (proposals[p].status = Pending /\ proposals'[p].status # Pending)
              => proposals'[p].status = C3_Expected(p)

\* C3: a successful finalize sets Expired when votesFor + votesAgainst is below
\* totalStaked * quorumPercentage / 10000, whichever side leads; otherwise
\* Approved when votesFor > votesAgainst and Rejected in every other case
\* (ties, and no votes under a threshold of 0).  40 for, 10 against, 100
\* staked at 6700 basis points gives Expired.
C3_FinalizeOutcome ==
    /\ FinalizeOutcome(40, 10, 100, 6700) = Expired
    /\ FinalizeOutcome(0, 0, 0, 6700) = Rejected
    /\ [][C3_Step]_vars

C3_Witness ==
    \E p \in ProposalIds :
        /\ proposals[p].status = Expired
        /\ proposals[p].votesFor > proposals[p].votesAgainst

\* C4, state and step parts.
C4_State ==
    \A p \in ProposalIds, a \in Accounts :
        proposals[p].status \in {Expired, Rejected} => MarkExecutedErr(a, p) # OK

C4_Step ==
    \A p \in ProposalIds :
        proposals[p].status \in {Expired, Rejected}
            => proposals'[p].status = proposals[p].status

\* C4: an Expired or Rejected proposal keeps its status for ever, and
\* markExecuted on it fails for every caller.
C4_ExpiredRejectedNeverExecute == []C4_State /\ [][C4_Step]_vars

C4_Witness ==
    \E p \in ProposalIds :
        /\ proposals[p].status = Expired
        /\ MarkExecutedErr(owner, p) = ErrNotApproved

\* The error the claim names; no require statement of the contract has it.
C5_AlreadyExecuted == "Already executed"

\* C5 (as stated): a second markExecuted call fails with an AlreadyExecuted
\* error.
C5_Original_SecondCallAlreadyExecuted ==
    \A p \in ProposalIds :
        proposals[p].status = Executed
            => MarkExecutedErr(owner, p) = C5_AlreadyExecuted

\* C5, state and step parts.
C5_State ==
    \A p \in ProposalIds, a \in Accounts :
        /\ MarkExecutedErr(a, p) = OK
              => (a = owner /\ Known(p) /\ proposals[p].status = Approved)
        /\ proposals[p].status = Executed
              => MarkExecutedErr(a, p) =
                     IF a = owner THEN ErrNotApproved ELSE ErrUnauthorized

C5_Step ==
    \A p \in ProposalIds :
        /\ (proposals[p].status # Executed /\ proposals'[p].status = Executed)
              => /\ proposals[p].status = Approved
                 /\ MarkExecuted(owner, p)
                 /\ proposals'[p] = [proposals[p] EXCEPT !.status = Executed]
        /\ proposals[p].status = Executed => proposals'[p] = proposals[p]
        /\ \A a \in Accounts :
              (MarkExecutedErr(a, p) # OK /\ proposals' # proposals)
                  => ~MarkExecuted(a, p)

\* C5 (amended): markExecuted succeeds only for the owner on an Approved
\* proposal and at most once per proposal; a second call by the owner fails
\* with "Not approved", the error of every non-Approved status, and no failed
\* call changes any state.
C5_MarkExecutedOnce == []C5_State /\ [][C5_Step]_vars

C5_Witness ==
    \E p \in ProposalIds :
        /\ proposals[p].status = Executed
        /\ MarkExecutedErr(owner, p) = ErrNotApproved

\* C6 (as stated): once a voter has voted on a proposal, every later vote call
\* of that voter on it fails with "Already voted", in whatever state.
C6_Original_AlwaysAlreadyVoted ==
    \A p \in ProposalIds, a \in Accounts :
        hasVoted[p][a] => VoteErr(a, p) = ErrAlreadyVoted

\* C6, state and step parts.
C6_State ==
    \A p \in ProposalIds, a \in Accounts :
        hasVoted[p][a] =>
            VoteErr(a, p) =
                IF proposals[p].status # Pending THEN ErrNotPending
                ELSE IF now >= proposals[p].deadline THEN ErrVotingEnded
                ELSE ErrAlreadyVoted

C6_Step ==
    \A p \in ProposalIds, a \in Accounts :
        hasVoted[p][a] => (hasVoted'[p][a] /\ votes'[p][a] = votes[p][a])

\* C6 (amended): once a voter has voted on a proposal, every later vote call
\* of that voter on it fails: with "Already voted" while the proposal is
\* Pending and the deadline has not passed (whatever the voter's stake), with
\* "Not pending" once it is finalized and with "Voting ended" from the
\* deadline on; the vote record is never written again.
C6_NoDoubleVote == []C6_State /\ [][C6_Step]_vars

C6_Witness ==
    \E p \in ProposalIds, a \in Accounts :
        /\ hasVoted[p][a]
        /\ stakes[a] = 0
        /\ VoteErr(a, p) = ErrAlreadyVoted

\* C7, the sum of the recorded weights of one side.
RECURSIVE SumOver(_, _)
SumOver(S, f) ==
    IF S = {} THEN 0
    ELSE LET x == CHOOSE y \in S : TRUE IN f[x] + SumOver(S \ {x}, f)

RecordedWeight(p, support) ==
    SumOver(Accounts,
            [a \in Accounts |->
                IF votes[p][a].voter = a /\ votes[p][a].support = support
                THEN votes[p][a].weight ELSE 0])

\* C7: votesFor is the sum of the recorded weights of the voters recorded as
\* supporting, votesAgainst the sum for those opposing, and hasVoted holds for
\* exactly the voters that have a vote record.
C7_TalliesMatchRecords ==
    \A p \in ProposalIds :
        /\ proposals[p].votesFor = RecordedWeight(p, TRUE)
        /\ proposals[p].votesAgainst = RecordedWeight(p, FALSE)
        /\ \A a \in Accounts :
              /\ hasVoted[p][a] <=> votes[p][a].voter = a
              /\ ~hasVoted[p][a] => votes[p][a] = ZeroVote

C7_Witness ==
    \E p \in ProposalIds :
        /\ \A a \in Accounts : hasVoted[p][a]
        /\ proposals[p].votesFor > 0
        /\ proposals[p].votesAgainst > 0

\* C8 (as stated): finalize on a proposal that is no longer Pending does not
\* fail.
C8_Original_RepeatedFinalizeSucceeds ==
    \A p \in ProposalIds :
        (Known(p) /\ proposals[p].status # Pending) => FinalizeErr(p) = OK

\* C8, state and step parts.
C8_State ==
    \A p \in ProposalIds :
        /\ (Known(p) /\ proposals[p].status = Pending /\ now >= proposals[p].deadline)
              => FinalizeErr(p) = OK
        /\ (Known(p) /\ proposals[p].status # Pending)
              => FinalizeErr(p) = ErrNotPending

C8_Step ==
    \A p \in ProposalIds :
        /\ (Known(p) /\ proposals[p].status # Pending /\ proposals' # proposals)
              => ~Finalize(p)
        /\ (Known(p) /\ proposals[p].status # Pending)
              => /\ proposals'[p].votesFor = proposals[p].votesFor
                 /\ proposals'[p].votesAgainst = proposals[p].votesAgainst
                 /\ proposals'[p].status \in {proposals[p].status, Executed}

\* C8 (amended): on a Pending proposal at or after the deadline finalize
\* succeeds for any caller and decides the status; every finalize on a
\* proposal that is no longer Pending fails with "Not pending" and changes
\* neither the status nor the tallies.
C8_FinalizeEffectiveOnce == []C8_State /\ [][C8_Step]_vars

C8_Witness ==
    \E p \in ProposalIds :
        /\ proposals[p].status = Approved
        /\ FinalizeErr(p) = ErrNotPending

\* C9, state and step parts.
C9_State ==
    \A p \in ProposalIds, a \in Accounts :
        /\ ~Known(p) => VoteErr(a, p) = ErrNotFound
        /\ (Known(p) /\ proposals[p].status # Pending)
              => VoteErr(a, p) = ErrNotPending
        /\ (Known(p) /\ proposals[p].status = Pending /\ now >= proposals[p].deadline)
              => VoteErr(a, p) = ErrVotingEnded
        /\ (Known(p) /\ proposals[p].status = Pending /\ now < proposals[p].deadline
            /\ ~hasVoted[p][a] /\ stakes[a] = 0)
              => VoteErr(a, p) = ErrNoVotingPower

C9_BallotsChanged ==
    \/ votes' # votes
    \/ hasVoted' # hasVoted
    \/ \E p \in ProposalIds :
          \/ proposals'[p].votesFor # proposals[p].votesFor
          \/ proposals'[p].votesAgainst # proposals[p].votesAgainst

C9_Step ==
    /\ C9_BallotsChanged =>
          \E a \in Accounts, p \in ProposalIds, s \in BOOLEAN :
              VoteErr(a, p) = OK /\ Vote(a, p, s)
    /\ ballots' # ballots =>
          \A a \in Accounts, p \in ProposalIds, s \in BOOLEAN :
              VoteErr(a, p) # OK => ~Vote(a, p, s)

\* C9: vote fails with "Proposal not found" for an unknown id, "Not pending"
\* for a finalized proposal, "Voting ended" from the deadline on and "No voting
\* power" for a caller without stake, the first failing check in that order
\* deciding the error; the vote records, hasVoted and the tallies change only
\* in a vote call that passes every check.
C9_VoteErrorsAtomic == []C9_State /\ [][C9_Step]_vars

C9_Witness ==
    \E p \in ProposalIds, a, b \in Accounts :
        /\ VoteErr(a, p) = ErrNoVotingPower
        /\ hasVoted[p][b]

\* C10, state and step parts.
C10_State ==
    \A a \in Accounts, o \in OmegaInputs :
        stakes[a] < minStakeToPropose => ProposeErr(a, o) = ErrInsufficientStake

C10_Step ==
    /\ <<proposalCount, proposals>>' # <<proposalCount, proposals>> =>
          \A a \in Accounts, t \in ActionTypes, d \in ActionData,
             o \in OmegaInputs, ps \in PsiInputs, b \in BetaInputs :
              ProposeErr(a, o) # OK => ~Propose(a, t, d, o, ps, b)
    /\ (proposalCount' # proposalCount
        \/ \E p \in ProposalIds : ~Known(p) /\ proposals'[p] # proposals[p])
          => LET id == proposalCount + 1
                 new == proposals'[id]
             IN
             /\ proposalCount' = id
             /\ \A p \in ProposalIds \ {id} : proposals'[p] = proposals[p]
             /\ ~Known(id)
             /\ new.id = id
             /\ new.status = Pending
             /\ new.votesFor = 0 /\ new.votesAgainst = 0
             /\ new.createdAt = now
             /\ new.deadline = now + votingPeriod
             /\ new.proposer \in Accounts
             /\ stakes[new.proposer] >= minStakeToPropose

\* C10: propose fails with "Insufficient stake" whenever the proposer's stake
\* is below minStakeToPropose; a failed propose creates no proposal and leaves
\* proposalCount as it is; a successful one creates a Pending proposal with no
\* votes, createdAt = now and deadline = now + votingPeriod.
C10_ProposeStakeAndCreation == []C10_State /\ [][C10_Step]_vars

C10_Witness ==
    \E p \in ProposalIds, a \in Accounts :
        /\ Known(p)
        /\ proposals[p].status = Pending
        /\ proposals[p].createdAt = now
        /\ proposals[p].deadline = now + 1
        /\ ProposeErr(a, 950) = ErrInsufficientStake

\* C11, the state part: the assigned ids are exactly 1 .. proposalCount, each
\* stored under its own key, and every other id is unknown to the handlers.
C11_State ==
    /\ Cardinality({p \in ManyIds : Known(p)}) = proposalCount
    /\ \A p \in ManyIds :
          IF p \in 1 .. proposalCount
          THEN proposals[p].id = p
          ELSE /\ proposals[p].id = 0
               /\ FinalizeErr(p) = ErrNotFound
               /\ MarkExecutedErr(owner, p) = ErrNotFound
               /\ \A a \in Accounts : VoteErr(a, p) = ErrNotFound

\* C11, the step part: the counter grows by one at a time, the id it reaches
\* was unassigned before, and an assigned id keeps its proposal.
C11_Step ==
    /\ proposalCount' \in {proposalCount, proposalCount + 1}
    /\ proposalCount' # proposalCount =>
          /\ ~Known(proposalCount')
          /\ proposals'[proposalCount'].id = proposalCount'
    /\ \A p \in ManyIds :
          Known(p) =>
              /\ proposals'[p].id = p
              /\ proposals'[p].proposer = proposals[p].proposer
              /\ proposals'[p].createdAt = proposals[p].createdAt

\* C11: proposal ids are unique and monotonic: the k-th successful propose
\* assigns id k, proposalCount is the number of proposals created, every id of
\* 1 .. proposalCount is stored under its own key and is never reassigned,
\* and vote, finalize and markExecuted report id 0 and every id above
\* proposalCount as not found.
C11_IdsUniqueMonotonic == []C11_State /\ [][C11_Step]_vars

C11_Witness ==
    /\ proposalCount = 2
    /\ proposals[1].status = Executed
    /\ proposals[2].id = 2
    /\ proposals[2].proposer # proposals[1].proposer

\* Vote totals a proposal can carry: no more than every account's full stake.
C12_Tallies == 0 .. (Cardinality(Accounts) * MaxStake)

\* C12: getQuorumThreshold() is totalStaked * quorumPercentage / 10000 in
\* integer division in every reachable state, 0 when nothing is staked, and
\* finalize compares the votes cast against that same threshold: a tally
\* expires exactly when it is below getQuorumThreshold().
C12_QuorumThreshold ==
    /\ GetQuorumThreshold = (totalStaked * quorumPercentage) \div 10000
    /\ totalStaked = 0 => GetQuorumThreshold = 0
    /\ \A f \in C12_Tallies, a \in C12_Tallies :
          (FinalizeOutcome(f, a, totalStaked, quorumPercentage) = Expired)
              <=> (f + a < GetQuorumThreshold)

C12_Witness ==
    /\ totalStaked = 3
    /\ quorumPercentage = 6700
    /\ GetQuorumThreshold = 2
    /\ FinalizeOutcome(1, 0, totalStaked, quorumPercentage) = Expired
    /\ FinalizeOutcome(1, 1, totalStaked, quorumPercentage) = Rejected

\* C13 as stated: a proposal leaves Pending for Approved or Rejected only when
\* the votes cast are at least the exact configured fraction of the stake.
C13_OriginalStep ==
    \A p \in ProposalIds :
        (proposals[p].status = Pending /\ proposals'[p].status \in {Approved, Rejected})
            => (proposals[p].votesFor + proposals[p].votesAgainst) * 10000
                   >= totalStaked * quorumPercentage

\* C13 (as stated): a proposal is finalized as Approved or Rejected only if
\* (votesFor + votesAgainst) * 10000 >= totalStaked * quorumPercentage at the
\* time of finalize, so rounding never lets a proposal pass quorum with less
\* than the configured fraction of the stake.
C13_Original_ExactFraction == [][C13_OriginalStep]_vars

C13_Step ==
    \A p \in ProposalIds :
        LET cast == proposals[p].votesFor + proposals[p].votesAgainst IN
        proposals[p].status = Pending =>
            /\ proposals'[p].status \in {Approved, Rejected} =>
                  /\ cast >= (totalStaked * quorumPercentage) \div 10000
                  /\ cast * 10000 > totalStaked * quorumPercentage - 10000
            /\ proposals'[p].status = Expired =>
                  cast * 10000 < totalStaked * quorumPercentage

\* C13 (amended): a proposal is finalized as Approved or Rejected only if
\* votesFor + votesAgainst is at least totalStaked * quorumPercentage / 10000
\* rounded down, at the time of finalize; the votes cast may therefore fall
\* short of the exact fraction, by less than one unit of stake, and a
\* proposal expires only when the votes cast are below the exact fraction.
C13_QuorumRoundedDown == [][C13_Step]_vars

C13_Witness ==
    \E p \in ProposalIds :
        LET cast == proposals[p].votesFor + proposals[p].votesAgainst IN
        /\ proposals[p].status \in {Approved, Rejected}
        /\ cast >= GetQuorumThreshold
        /\ cast * 10000 < totalStaked * quorumPercentage

\* C14, the step in which stake or unstake reaches its external call.
C14_OriginalStep ==
    (call.fn = "none" /\ call'.fn # "none") =>
        LET a == call'.sender
            n == call'.amount
        IN
        IF call'.fn = "stake"
        THEN stakes'[a] = stakes[a] + n /\ totalStaked' = totalStaked + n
        ELSE stakes'[a] = stakes[a] - n /\ totalStaked' = totalStaked - n

\* C14: in both stake and unstake the contract's balances (stakes and
\* totalStaked) are written before the external token transfer is called, so
\* that they already reflect the operation when the token's callback runs.
C14_Original_EffectsBeforeTransfer == [][C14_OriginalStep]_vars

RECURSIVE C15_Sum(_)
C15_Sum(S) ==
    IF S = {} THEN 0
    ELSE LET a == CHOOSE x \in S : TRUE IN stakes[a] + C15_Sum(S \ {a})

\* C15, the state part.  MaxStake is the number of tokens an account began
\* with, so MaxStake - balances[a] is what the account has handed over.
C15_State ==
    /\ entered <=> call # NoCall
    /\ entered =>
          \A a \in Accounts, n \in Amounts :
              /\ StakeCallErr(a, n) = ErrReentrant
              /\ UnstakeCallErr(a, n) = ErrReentrant
    /\ \A a \in Accounts : stakes[a] + balances[a] <= MaxStake
    /\ totalStaked = C15_Sum(Accounts)
    /\ balances[This] >= totalStaked
    /\ call = NoCall =>
          /\ \A a \in Accounts : stakes[a] + balances[a] = MaxStake
          /\ balances[This] = totalStaked

\* C15, the step part: inside a callback no stake changes but by the return
\* of the running call, and a vote or a proposal made at any time rests on
\* stake the account has handed over in tokens.
C15_Step ==
    /\ (entered /\ staking' # staking) => StakeReturn
    /\ votes' # votes =>
          \A p \in ProposalIds, a \in Accounts :
              votes'[p][a] # votes[p][a] =>
                  /\ votes'[p][a].weight = stakes[a]
                  /\ votes'[p][a].weight <= MaxStake - balances[a]
    /\ proposalCount' # proposalCount =>
          minStakeToPropose
              <= MaxStake - balances[proposals'[proposalCount'].proposer]

\* C15: a stake or unstake call made from inside the token's transfer
\* callback is rejected, and no sequence of calls, such attempts included,
\* lets an account take out more tokens than it has staked or vote or
\* propose with stake that is not credited to it and paid for in tokens.
C15_ReentrancySafe == []C15_State /\ [][C15_Step]_vars

C15_Witness ==
    /\ call.fn = "unstake"
    /\ call.moved
    /\ \E p \in ProposalIds :
          /\ hasVoted[p][call.sender]
          /\ votes[p][call.sender].weight = stakes[call.sender]
          /\ votes[p][call.sender].weight < MaxStake
          /\ votes[p][call.sender].timestamp = now
          /\ balances[call.sender] = MaxStake - stakes[call.sender]

\* C16, for the calls that change a proposal's status.
C16_OriginalStep ==
    \A p \in ProposalIds :
        proposals'[p].status # proposals[p].status =>
            IF proposals[p].status = Pending
            THEN Len(FinalizeEvents(p)) = 1
            ELSE \E a \in Accounts : Len(MarkExecutedEvents(a, p)) = 1

\* C16: every successful state-changing call emits its event exactly once and
\* a failed call emits none, so that every change of a proposal's status, the
\* change to Expired included, shows in the events: the call that makes the
\* change emits one event.
C16_Original_StatusChangeEmits == [][C16_OriginalStep]_vars

\* C17, the state part.
C17_State ==
    \A p \in ProposalIds :
        /\ actuation[p].applied <= 1
        /\ actuation[p].succeeded <= 1
        /\ proposals[p].status = Executed =>
              actuation[p].succeeded = 1 /\ actuation[p].applied = 1
        /\ (actuation[p].dispatched /\ actuation[p].succeeded = 0) =>
              proposals[p].status = Approved

\* C17, the step part: an attempt without success leaves the proposal
\* Approved, and an Approved proposal changes only to Executed, after the
\* success.
C17_Step ==
    \A p \in ProposalIds :
        proposals[p].status = Approved =>
            /\ (actuation'[p] # actuation[p] /\ actuation'[p].succeeded = 0) =>
                  proposals'[p].status = Approved
            /\ proposals'[p].status # Approved =>
                  /\ proposals'[p].status = Executed
                  /\ actuation[p].succeeded = 1

C18_State ==
    /\ direct \notin GatedActions
    /\ \A p \in ProposalIds :
          actuation[p].dispatched =>
              /\ Known(p)
              /\ proposals[p].status \in {Approved, Executed}

\* C18, the step part: the Actuator acts for a proposal that is Approved.
C18_Step ==
    \A p \in ProposalIds :
        actuation'[p] # actuation[p] =>
            /\ proposals[p].id = p
            /\ proposals[p].status = Approved

C19_Original_SnapshotInRange ==
    \A p \in ProposalIds :
        Known(p) =>
            /\ proposals[p].omegaScore \in 0 .. 1000
            /\ proposals[p].psiIndex \in 0 .. 1000
            /\ proposals[p].betaAntifragile \in 0 .. 2000

\* C20, the state part.
C20_State ==
    /\ quorumPercentage \in 0 .. 10000
    /\ \A a \in Accounts \ {owner}, q \in QuorumInputs :
          UpdateParametersErr(a, q) = ErrUnauthorized
    /\ \A q \in QuorumInputs :
          q > 10000 => UpdateParametersErr(owner, q) = ErrInvalidQuorum

\* C20, the step part: the configuration changes only by a call of the owner
\* that passes a quorum of at most 10000, and a call that is rejected leaves
\* all of it as it was.
C20_Step ==
    config' # config =>
        /\ \E m \in MinStakes, q \in QuorumInputs, v \in VotingPeriods :
              /\ q <= 10000
              /\ UpdateParameters(owner, m, q, v)
              /\ config' = <<m, q, v>>
        /\ \A a \in Accounts, m \in MinStakes, q \in QuorumInputs, v \in VotingPeriods :
              UpdateParametersErr(a, q) # OK => ~UpdateParameters(a, m, q, v)

\* C20: quorumPercentage is within 0 .. 10000 in every reachable state: the
\* constructor and updateParameters reject a larger value and then leave the
\* whole configuration unchanged, and only the owner changes
\* minStakeToPropose, quorumPercentage or votingPeriod.
C20_QuorumInRange == []C20_State /\ [][C20_Step]_vars

C20_Witness ==
    /\ quorumPercentage = 5000
    /\ \E p \in ProposalIds :
          /\ Known(p)
          /\ proposals[p].deadline - proposals[p].createdAt # votingPeriod

\* The minimum confidence of C21, in percent.
C21_Minimum ==
    CASE decisionMode = "Conservative" -> 85
      [] decisionMode = "Balanced" -> 70
      [] decisionMode = "Aggressive" -> 50

C21_DirectActions == {"SCALE_UP", "SCALE_DOWN", "RETUNE"}

\* C21, the state part: a prediction of SCALE_UP, SCALE_DOWN or RETUNE whose
\* confidence clears the minimum can be dispatched as it is.
C21_State ==
    (prediction.confidence >= C21_Minimum /\ prediction.action \in C21_DirectActions) =>
        ENABLED (Decide /\ direct' = prediction.action)

\* C21, the step part: below the minimum nothing is dispatched and nothing is
\* proposed, and what is dispatched directly is the predicted action.
C21_Step ==
    /\ (direct' # direct \/ proposalCount' # proposalCount) =>
           prediction.confidence >= C21_Minimum
    /\ direct' # direct =>
           /\ direct' = prediction.action
           /\ direct' \in C21_DirectActions

C22_ReplicasWithinLimits ==
    /\ target.replicas >= MinReplicas
    /\ target.replicas <= MaxReplicas

\* A SCALE_UP has ended at MaxReplicas, cut short of its ScaleUpStep.
C22_Witness ==
    /\ target.replicas = MaxReplicas
    /\ \A d \in DecisionIds :
          inflight[d] = [action |-> "SCALE_UP", fate |-> "done"]

C23_Running == {d \in DecisionIds : inflight[d].fate = "running"}
C23_Dropped == {d \in DecisionIds : inflight[d].fate = "dropped"}

\* C23, the state part.
C23_State ==
    /\ Cardinality(C23_Running) <= 1
    /\ target.busy = Cardinality(C23_Dropped)

\* C23, the step part: a Decision is dropped while another holds the lock,
\* the drop counts once, and a dropped Decision stays dropped.
C23_Step ==
    \A d \in DecisionIds :
        /\ inflight[d].fate = "dropped" => inflight'[d] = inflight[d]
        /\ (inflight[d].fate # "dropped" /\ inflight'[d].fate = "dropped") =>
              /\ C23_Running # {}
              /\ target'.busy = target.busy + 1
              /\ target'.replicas = target.replicas

\* C23: no two actuations ever run at the same time on the target; a
\* Decision that arrives while the lock is held, and does not get the lock
\* within its wait, is dropped, never run later, and the Busy counter goes
\* up by exactly one for every dropped Decision.
C23_LockAndDrop == []C23_State /\ [][C23_Step]_vars

C23_Witness ==
    /\ target.busy = 1
    /\ inflight[1].fate = "done"
    /\ inflight[2].fate = "dropped"
    /\ inflight[3].fate = "done"

\* C24, the state part: the Actuator was invoked again for a proposal only
\* with the action's effect on the target still applied once.
C24_State ==
    \A p \in ProposalIds :
        actuation[p].reinvoked => actuation[p].applied = 1

\* C24, the step part: invoking the Actuator for a proposal whose action it
\* has applied is a reinvocation and applies nothing.
C24_Step ==
    \A p \in ProposalIds :
        (actuation'[p] # actuation[p] /\ actuation[p].applied > 0) =>
            /\ actuation'[p].reinvoked
            /\ actuation'[p].applied = actuation[p].applied

C26_Original_MonitorBand ==
    (gate.called /\ gate.returned # "ACCELERATE") =>
        gate.returned =
            IF gate.omega_score_scaled > 6500 /\ gate.cvar_95_scaled < 1000
            THEN "MONITOR"
            ELSE "PAUSE"

\* C27: evaluate recommends ACCELERATE exactly when the omega score is
\* strictly greater than 8500 and the CVaR-95 is below 500; for every input
\* it returns one of ACCELERATE, MONITOR and PAUSE, and the DecisionEvaluated
\* event it emits carries the recommendation it returns.
C27_Original_AccelerateStrict ==
    gate.called =>
        /\ gate.returned = "ACCELERATE" <=>
              (gate.omega_score_scaled > 8500 /\ gate.cvar_95_scaled < 500)
        /\ gate.returned \in Decision
        /\ gate.emitted.recommendation = gate.returned

\* The header of a request is one the claim C28 speaks of: it is missing,
\* its scheme is not Bearer, or its token does not decode with the secret.
C28_Unauthorized(header) ==
    \/ ~header.present
    \/ header.parts[1] # "Bearer"
    \/ Len(header.parts) < 2
    \/ header.parts[2] \notin {"jwt.demo", "jwt.ana"}

\* C28, the step part.
C28_Step ==
    (/\ backend' # backend
     /\ backend'.request.path \in {"/api/decisions", "/api/metrics"}
     /\ C28_Unauthorized(backend'.request.header)) =>
        /\ backend'.response.status = 401
        /\ backend'.response.error # ""
        /\ backend'.handled = backend.handled
        /\ backend'.aiCalls = backend.aiCalls
        /\ backend'.decisions = backend.decisions

\* C28: a request to a route under /api/decisions or /api/metrics without an
\* Authorization header, with a scheme other than Bearer, or with a token
\* that does not decode with the server's secret is answered 401 with an
\* error in the body, and no route handler runs for it: the AI service is
\* not called and no Decision is stored.
C28_UnauthorizedRejected == [][C28_Step]_vars

\* A token signed with another secret was refused after a Decision of the
\* same user had been stored.
C28_Witness ==
    /\ backend.response.status = 401
    /\ backend.response.error = "Invalid token"
    /\ backend.request.header.parts = <<"Bearer", "jwt.forged">>
    /\ backend.request.path = "/api/metrics"
    /\ Len(backend.decisions) = 1

\* The user a token was issued to.
C29_IssuedTo(token) ==
    CASE token = "jwt.demo" -> "demo@symbios.ai"
      [] token = "jwt.ana" -> "ana@symbios.ai"

\* C29, the step part, for a POST to /api/decisions that passed the
\* middleware.
C29_Step ==
    LET request == backend'.request
        response == backend'.response
        record == [userId |-> C29_IssuedTo(request.header.parts[2]),
                   omegaScore |-> request.ai.omega_score,
                   recommendation |-> request.ai.recommendation]
    IN
    (/\ backend'.handled # backend.handled
     /\ request.method = "POST"
     /\ request.path = "/api/decisions") =>
        /\ backend'.aiCalls = backend.aiCalls + 1
        /\ response.status = IF request.ai.ok /\ request.db THEN 201 ELSE 502
        /\ response.status = 201 =>
              /\ backend'.decisions = Append(backend.decisions, record)
              /\ response.decision = record
        /\ response.status = 502 =>
              /\ backend'.decisions = backend.decisions
              /\ response.error # ""

C30_Step ==
    /\ \A p \in ProposalIds, a \in Accounts :
          (~hasVoted[p][a] /\ hasVoted'[p][a]) =>
              /\ votes'[p][a].weight = stakes[a]
              /\ proposals'[p].votesFor + proposals'[p].votesAgainst =
                     proposals[p].votesFor + proposals[p].votesAgainst + stakes[a]
    /\ stakes' # stakes => UNCHANGED <<votes, hasVoted, proposals>>

\* C30: the weight of a vote is the voter's stake at the moment of the vote
\* call, and a later stake or unstake of the voter changes neither the
\* recorded weight nor the tallies; a voter who stakes, votes and unstakes
\* before the deadline has the full weight counted at finalize, and the
\* votes of a proposal can add up to more than totalStaked.
C30_LiveStakeWeight == [][C30_Step]_vars

\* A proposal was finalized on the votes of an account that had withdrawn
\* its whole stake before the deadline; its tallies exceed totalStaked.
C30_Witness ==
    \E p \in ProposalIds, a \in Accounts :
        /\ proposals[p].status = Approved
        /\ votes[p][a].weight = MaxStake
        /\ votes[p][a].timestamp < proposals[p].deadline
        /\ stakes[a] = 0
        /\ proposals[p].votesFor + proposals[p].votesAgainst > totalStaked

RECURSIVE C31_VotingPower(_)
C31_VotingPower(S) ==
    IF S = {} THEN 0
    ELSE LET a == CHOOSE x \in S : TRUE IN GetVotingPower(a) + C31_VotingPower(S \ {a})

\* C31, the state part.
C31_State ==
    /\ totalStaked = C31_VotingPower(Accounts)
    /\ \A a \in Accounts : stakes[a] >= 0 /\ GetVotingPower(a) = stakes[a]

\* C31, the step part: a step that changes a stake or totalStaked changes
\* the stake of one account and totalStaked by the same amount and nothing
\* that propose, vote, finalize, markExecuted or updateParameters write.
C31_Step ==
    (stakes' # stakes \/ totalStaked' # totalStaked) =>
        /\ UNCHANGED <<owner, config, proposalCount, ballots>>
        /\ \E a \in Accounts :
              /\ stakes'[a] # stakes[a]
              /\ \A b \in Accounts \ {a} : stakes'[b] = stakes[b]
              /\ totalStaked' - totalStaked = stakes'[a] - stakes[a]

\* C31: in every reachable state totalStaked is the sum of the stakes of all
\* accounts, no stake is negative and getVotingPower of an account is its
\* stake; only stake and unstake change these values.
C31_StakeAccounting == []C31_State /\ [][C31_Step]_vars

\* Both accounts have staked and voted with MaxStake, and one of them has
\* taken part of its stake back since.
C31_Witness ==
    /\ stakes["a1"] = 1
    /\ stakes["a2"] = MaxStake
    /\ \E p \in ProposalIds : proposals[p].votesFor + proposals[p].votesAgainst > totalStaked

\* C32, the state part: vote succeeds only before the deadline, finalize
\* only from the deadline on, so never both.
C32_State ==
    \A p \in ProposalIds :
        /\ \A a \in Accounts : VoteErr(a, p) = OK => now < proposals[p].deadline
        /\ FinalizeErr(p) = OK => now >= proposals[p].deadline
        /\ \A a \in Accounts : ~(VoteErr(a, p) = OK /\ FinalizeErr(p) = OK)

\* C32, the step part: from the deadline on, and once the status is no
\* longer Pending, the tallies stay as they are.
C32_Step ==
    \A p \in ProposalIds :
        (Known(p) /\ (now >= proposals[p].deadline \/ proposals[p].status # Pending)) =>
            /\ proposals'[p].votesFor = proposals[p].votesFor
            /\ proposals'[p].votesAgainst = proposals[p].votesAgainst

\* C32: voting and finalization never overlap for a proposal: vote can
\* succeed only strictly before the deadline and finalize only at or after
\* it, in no state can both succeed, and from the deadline on votesFor and
\* votesAgainst never change.
C32_VoteThenFinalize == []C32_State /\ [][C32_Step]_vars

\* The deadline has passed on a Pending proposal with votes: finalize would
\* succeed, and the vote of an account with stake that has not voted is
\* refused as too late.
C32_Witness ==
    \E p \in ProposalIds, a \in Accounts :
        /\ proposals[p].votesFor > 0
        /\ FinalizeErr(p) = OK
        /\ VoteErr(a, p) = ErrVotingEnded
        /\ stakes[a] > 0
        /\ ~hasVoted[p][a]

\* C33: in every reachable state a proposal that is Approved or Executed has
\* votesFor > votesAgainst, hence votesFor > 0: a proposal without a
\* supporting vote is never Approved or Executed, whatever the quorum and the
\* total stake.
C33_ApprovedHasMajority ==
    \A p \in ProposalIds :
        proposals[p].status \in {Approved, Executed} =>
            /\ proposals[p].votesFor > proposals[p].votesAgainst
            /\ proposals[p].votesFor > 0

\* A proposal with votes on both sides has been approved and executed.
C33_Witness ==
    \E p \in ProposalIds :
        /\ proposals[p].status = Executed
        /\ proposals[p].votesAgainst > 0

\* The status finalize gives the tallies of the proposal against a stake
\* total and a quorum percentage.
C34_Outcome(p, staked, quorum) ==
    FinalizeOutcome(proposals[p].votesFor, proposals[p].votesAgainst, staked, quorum)

\* From the deadline on the tallies of a proposal are frozen, while
\* stake, unstake and updateParameters go on changing what finalize reads.
C34_Step == \A p \in ProposalIds :
    /\ (proposals[p].status = Pending /\ proposals'[p].status # Pending) =>
          /\ now >= proposals[p].deadline
          /\ proposals'[p].status = C34_Outcome(p, totalStaked, quorumPercentage)
          /\ UNCHANGED <<now, staking, config, atDeadline>>
    /\ (FinalizeErr(p) = OK /\ proposals'[p].status = Pending) =>
          /\ proposals'[p].votesFor = proposals[p].votesFor
          /\ proposals'[p].votesAgainst = proposals[p].votesAgainst
          /\ proposals'[p].deadline = proposals[p].deadline

\* C34: finalize evaluates the quorum against totalStaked and
\* quorumPercentage as they are when it is called, not as they were at
\* creation or at the deadline: the status a Pending proposal receives is the
\* outcome of its tallies, frozen since the deadline, under the stake total
\* and the quorum percentage of the state in which finalize runs, so a stake,
\* unstake or updateParameters after the deadline decides the status.
C34_FinalizeReadsLiveValues == [][C34_Step]_vars

\* A proposal was finalized to a status other than the one its tallies had
\* under the stake total and quorum percentage noted when its deadline passed.
C34_Witness == \E p \in ProposalIds :
    /\ atDeadline[p].recorded
    /\ proposals[p].status \in {Approved, Rejected, Expired}
    /\ proposals[p].status #
           C34_Outcome(p, atDeadline[p].totalStaked, atDeadline[p].quorumPercentage)

\* A Pending proposal at or after its deadline can be finalized, by a call that
\* names no caller; while it is Pending it is reported Pending and not approved.
C35_State == \A p \in ProposalIds :
    (Known(p) /\ proposals[p].status = Pending) =>
        /\ GetProposal(p).status = Pending
        /\ ~IsApproved(p)
        /\ now >= proposals[p].deadline =>
              /\ FinalizeErr(p) = OK
              /\ ENABLED (Finalize(p) /\ proposals'[p].status # Pending)

\* The passing of time reports no other status: only a finalize step takes a
\* proposal out of Pending.
C35_Step == \A p \in ProposalIds :
    /\ (proposals[p].status = Pending /\ proposals'[p].status # Pending) =>
          FinalizeErr(p) = OK /\ Finalize(p)
    /\ (Known(p) /\ now' # now) =>
          (GetProposal(p).status)' = GetProposal(p).status

C35_Live == \A p \in ProposalIds :
    Known(p) ~> (proposals[p].status # Pending)

\* C35: at or after its deadline finalize succeeds on a Pending proposal
\* whoever calls it, so when finalize is eventually called (weak fairness)
\* every proposal eventually leaves Pending; without the call the proposal
\* stays Pending and getProposal and isApproved do not report it otherwise
\* because the deadline passed.
C35_FinalizeEventually == []C35_State /\ [][C35_Step]_vars /\ C35_Live

\* A proposal sits Pending after its deadline has passed.
C35_Witness == \E p \in ProposalIds :
    /\ Known(p)
    /\ now > proposals[p].deadline
    /\ GetProposal(p).status = Pending
    /\ ~IsApproved(p)
    /\ proposals[p].votesFor + proposals[p].votesAgainst > 0

\* What propose wrote into a proposal apart from its tallies and status.
C36_Created(proposal) ==
    <<proposal.id, proposal.proposer, proposal.actionType, proposal.actionData,
      proposal.omegaScore, proposal.psiIndex, proposal.betaAntifragile,
      proposal.createdAt, proposal.deadline>>

C36_Tallies(proposal) == <<proposal.votesFor, proposal.votesAgainst>>

C36_Step == \A p \in DOMAIN proposals :
    /\ Known(p) => C36_Created(proposals'[p]) = C36_Created(proposals[p])
    /\ (Known(p) /\ proposals'[p] # proposals[p]) =>
          /\ \A q \in DOMAIN proposals \ {p} : proposals'[q] = proposals[q]
          /\ UNCHANGED <<now, owner, staking, config, proposalCount>>
          /\ \/ /\ C36_Tallies(proposals'[p]) # C36_Tallies(proposals[p])
                /\ proposals'[p].status = proposals[p].status
                /\ \E a \in Accounts :
                      /\ votes'[p][a] # votes[p][a]
                      /\ hasVoted'[p][a] # hasVoted[p][a]
                      /\ \A q \in DOMAIN proposals, b \in Accounts :
                            <<q, b>> # <<p, a>> =>
                               /\ votes'[q][b] = votes[q][b]
                               /\ hasVoted'[q][b] = hasVoted[q][b]
             \/ /\ proposals'[p].status # proposals[p].status
                /\ C36_Tallies(proposals'[p]) = C36_Tallies(proposals[p])
                /\ UNCHANGED <<votes, hasVoted>>
    /\ (~Known(p) /\ proposals'[p] # proposals[p]) =>
          \A q \in DOMAIN proposals \ {p} : proposals'[q] = proposals[q]
    /\ config' # config => UNCHANGED <<proposalCount, ballots>>

\* C36: what propose wrote into a proposal (id, proposer, action type and
\* data, the snapshot, createdAt and deadline) never changes afterwards: a
\* vote changes only its tallies and the voter's record, finalize and
\* markExecuted only its status, and updateParameters, a new voting period
\* included, and the operations on other proposals leave it as it is.
C36_ProposalFrame == [][C36_Step]_vars

\* Two proposals side by side: one executed, whose deadline was set under
\* a voting period that has been replaced since, and one that has votes.
C36_Witness == \E p, q \in DOMAIN proposals :
    /\ p # q /\ Known(p) /\ Known(q)
    /\ proposals[p].deadline - proposals[p].createdAt # votingPeriod
    /\ proposals[p].status = Executed
    /\ proposals[q].votesFor + proposals[q].votesAgainst > 0

\* The token returns true from transferFrom(sender, this, amount), or from
\* transfer(sender, amount), only when it is willing and its ledger holds the
\* amount.
C37_StakeTransfer(a, n, ok) == ok /\ balances[a] >= n
C37_UnstakeTransfer(a, n, ok) == ok /\ balances[This] >= n

C37_State == \A a \in Accounts, n \in Amounts, ok \in BOOLEAN :
    /\ (n = 0 \/ ~C37_StakeTransfer(a, n, ok)) =>
          /\ StakeErr(a, n, C37_StakeTransfer(a, n, ok)) # OK
          /\ StakeEvents(a, n, C37_StakeTransfer(a, n, ok)) = << >>
          /\ ~ENABLED (StakeCall(a, n, ok) /\ vars' # vars)
    /\ (n = 0 \/ n > stakes[a] \/ ~C37_UnstakeTransfer(a, n, ok)) =>
          /\ UnstakeErr(a, n, C37_UnstakeTransfer(a, n, ok)) # OK
          /\ UnstakeEvents(a, n, C37_UnstakeTransfer(a, n, ok)) = << >>
          /\ ~ENABLED (UnstakeCall(a, n, ok) /\ vars' # vars)

\* A stake, the stake total or a token balance changes only in the course
\* of a call with a positive amount, an unstake of no more than the stake.
C37_Step ==
    /\ (call = NoCall /\ call' # NoCall) =>
          /\ call'.amount > 0
          /\ call'.fn = "stake" => balances[call'.sender] >= call'.amount
          /\ call'.fn = "unstake" => stakes[call'.sender] >= call'.amount
    /\ <<staking, balances>>' # <<staking, balances>> =>
          call # NoCall \/ call' # NoCall

\* C37: stake and unstake of amount 0, unstake of more than the caller's
\* stake, and a stake or unstake whose token transfer fails are rejected as a
\* whole: the stake, totalStaked and the token balances stay as they were
\* and no Staked or Unstaked event is emitted.
C37_FailedStakingLeavesNoTrace == []C37_State /\ [][C37_Step]_vars

\* An account with a stake of 1 and 1 token left, the contract holding more:
\* unstake of 2 fails on the stake alone, stake of 2 on the transfer alone.
C37_Witness == \E a \in Accounts :
    /\ call = NoCall
    /\ stakes[a] = 1 /\ balances[a] = 1 /\ balances[This] >= 2
    /\ UnstakeCallErr(a, 2) = ErrInsufficientStake
    /\ StakeCallErr(a, 2) = OK
    /\ StakeErr(a, 2, C37_StakeTransfer(a, 2, TRUE)) = ErrTransferFailed

\* isApproved is false of an id no proposal has, and true of a proposal
\* exactly when the owner's markExecuted on it would go through.
C38_State == \A p \in ProposalIds :
    /\ ~Known(p) => ~IsApproved(p)
    /\ proposals[p].status \in {Pending, Rejected, Expired, Executed} => ~IsApproved(p)
    /\ IsApproved(p) <=> MarkExecutedErr(owner, p) = OK
    /\ IsApproved(p) <=>
          ENABLED (MarkExecuted(owner, p) /\ proposals'[p].status # proposals[p].status)

\* isApproved becomes true at a finalize that approves and false at the
\* owner's markExecuted, and stays false from then on.
C38_Step == \A p \in ProposalIds :
    /\ (~IsApproved(p) /\ IsApproved(p)') =>
          /\ FinalizeErr(p) = OK
          /\ Finalize(p)
          /\ FinalizeEvents(p) # << >>
          /\ FinalizeEvents(p)[1].name = "ProposalApproved"
    /\ (IsApproved(p) /\ ~IsApproved(p)') =>
          /\ MarkExecuted(owner, p)
          /\ proposals'[p].status = Executed
    /\ proposals[p].status = Executed => ~IsApproved(p)'

\* C38: isApproved(id) is true exactly while the status of the proposal is
\* Approved: false for unknown ids and for Pending, Rejected and Expired
\* proposals, true from the finalize that approves the proposal, and false
\* again in every state after markExecuted has moved it to Executed.
C38_IsApprovedWhileApproved == []C38_State /\ [][C38_Step]_vars

\* An executed proposal, which markExecuted refuses now, next to the unknown id 0.
C38_Witness == \E p \in ProposalIds :
    /\ proposals[p].status = Executed
    /\ ~IsApproved(p)
    /\ MarkExecutedErr(owner, p) = ErrNotApproved
    /\ ~Known(0) /\ ~IsApproved(0)

====
